---- MODULE Spec2Model ----
(***************************************************************************)
(* State-machine model of the array visualizer's step recording and        *)
(* playback engine (class ArrayVisualizer, src/array.js lines 242-567).    *)
(*                                                                         *)
(* JavaScript runs the class on one thread: a click handler or a timer     *)
(* callback runs to its next `await sleep(..)` (or to its end) without      *)
(* interruption, promise continuations (microtasks) run before the next    *)
(* click or timer.  Every action below is therefore one such uninterrupted *)
(* segment; an async function suspended in a sleep is a record in `tasks`. *)
(***************************************************************************)
EXTENDS Integers, Sequences, FiniteSets, TLC

(* ------------------------------ bounds --------------------------------- *)

\* largest array the model creates or inserts into
MaxLen == 2
\* create() draws its values from MinValue..MaxValue (the code: 10..99)
MaxValue == 11
\* at most this many suspended async functions at a time
MaxTasks == 2
\* the replay specification (sequential playback): its longest input and
\* its largest value
MaxReplayLen == 4
MaxReplayValue == 13
\* the longest input of the specification of prepareSort
MaxPrepareLen == 3
\* the most nodes of the linked list
MaxNodes == 3
\* the values typed into the binary tree are 1..MaxTreeValue; the tree has
\* room for MaxTreeNodes nodes
MaxTreeValue == 3
MaxTreeNodes == 4
\* the most elements of the array list where its texts differ
MaxElements == 5

(* ------------------------- program constants --------------------------- *)

\* create(): Math.floor(Math.random() * 90) + 10
MinValue == 10
\* create() and insert(): at most 15 elements
MaxArraySize == 15
\* the sleeps, in milliseconds
StepHoldMs == 250
PlayGapMs == 400
PrefixHoldMs == 500
EditHoldMs == 800
\* the queue and the stack: their capacities and their sleeps
QueueMaxSize == 7
StackMaxSize == 8
SlotHoldMs == 600
PeekHoldMs == 800
SweepHoldMs == 150
\* the linked list: its sleeps
NodeHoldMs == 600
WalkHoldMs == 400
FoundHoldMs == 1000
\* the binary tree: the sleeps of search and of a visit's second half
TreeSearchHoldMs == 500
VisitedHoldMs == 200
\* the hash set and the hash map: the buckets and the sleeps
HashSize == 7
HashHoldMs == 500
BucketHoldMs == 800
\* the array list: its capacities and the sleeps not named above
InitialCapacity == 4
ListMaxCapacity == 16
ShiftHoldMs == 200
CompareHoldMs == 300

\* JavaScript's undefined (also an array hole) and NaN, as numbers no
\* element value takes
Undef == -1
NaN == -2

Values == MinValue..MaxValue

SortTypes == {"bubbleSort", "selectionSort", "insertionSort"}

(* --------------------------- array helpers ----------------------------- *)

\* arr[i] for a 0-based index: out of range reads give undefined
At(arr, i) == IF i >= 0 /\ i < Len(arr) THEN arr[i + 1] ELSE Undef

\* arr[i] = v for a 0-based index: a write past the end grows the array,
\* the slots in between are holes
Put(arr, i, v) ==
    IF i < Len(arr) THEN [arr EXCEPT ![i + 1] = v]
    ELSE arr \o [k \in 1..(i - Len(arr)) |-> Undef] \o <<v>>

\* a > b on numbers-or-undefined: any comparison with undefined is false
Gt(a, b) == a # Undef /\ b # Undef /\ a # NaN /\ b # NaN /\ a > b

\* a < b, with the same rule
Lt(a, b) == Gt(b, a)

\* currentSum += x
Plus(a, b) == IF a = NaN \/ b = NaN \/ a = Undef \/ b = Undef THEN NaN ELSE a + b

\* arr.splice(index, 0, value)
SpliceIn(arr, index, value) ==
    SubSeq(arr, 1, index) \o <<value>> \o SubSeq(arr, index + 1, Len(arr))

\* arr.splice(index, 1): nothing is removed when index is past the end
SpliceOut(arr, index) ==
    IF index >= Len(arr) THEN arr
    ELSE SubSeq(arr, 1, index) \o SubSeq(arr, index + 2, Len(arr))

(* ------------------------------- steps --------------------------------- *)

\* the objects pushed on animationQueue; a field a step does not have reads
\* as undefined.  The `text` field is narration only and is left out.
CompareStep(a, b) ==
    [type |-> "compare", indices |-> <<a, b>>, index |-> Undef, value |-> Undef]
SwapStep(a, b) ==
    [type |-> "swap", indices |-> <<a, b>>, index |-> Undef, value |-> Undef]
ShiftStep(a, b) ==
    [type |-> "shift", indices |-> <<a, b>>, index |-> Undef, value |-> Undef]
InsertStep(i, v) ==
    [type |-> "insert", indices |-> <<Undef, Undef>>, index |-> i, value |-> v]
NoStep ==
    [type |-> "none", indices |-> <<Undef, Undef>>, index |-> Undef, value |-> Undef]

(* --------------------------- step generators --------------------------- *)

\* A generator run: arr is the working copy (tempArray), q the steps pushed
\* so far, and snaps[k] the working copy as it was when step k was pushed,
\* that is after the k-1 steps before it.
GenStart(arr) == [arr |-> arr, q |-> <<>>, snaps |-> <<>>]

\* this.animationQueue.push(step)
Emit(st, step) ==
    [st EXCEPT !.q = Append(@, step), !.snaps = Append(@, st.arr)]

\* the generator returns: the last snapshot is the finished working copy
GenEnd(st) == [st EXCEPT !.snaps = Append(@, st.arr)]

\* [arr[i], arr[j]] = [arr[j], arr[i]]
SwapAt(arr, i, j) == Put(Put(arr, i, At(arr, j)), j, At(arr, i))

\* bubble sort with the comparison turned round (it sorts descending)
RECURSIVE BubbleLoopDescending(_, _, _)
BubbleLoopDescending(i, j, st) ==
    LET n == Len(st.arr) IN
    IF ~(i < n - 1) THEN st
    ELSE IF ~(j < n - i - 1) THEN BubbleLoopDescending(i + 1, 0, st)
    ELSE LET st1 == Emit(st, CompareStep(j, j + 1))
             st2 == IF Lt(At(st1.arr, j), At(st1.arr, j + 1))
                    THEN [Emit(st1, SwapStep(j, j + 1))
                            EXCEPT !.arr = SwapAt(@, j, j + 1)]
                    ELSE st1
         IN BubbleLoopDescending(i, j + 1, st2)

\* bubble sort swapping on >= (equal neighbours are exchanged too)
RECURSIVE BubbleLoopSwapsTies(_, _, _)
BubbleLoopSwapsTies(i, j, st) ==
    LET n == Len(st.arr) IN
    IF ~(i < n - 1) THEN st
    ELSE IF ~(j < n - i - 1) THEN BubbleLoopSwapsTies(i + 1, 0, st)
    ELSE LET st1 == Emit(st, CompareStep(j, j + 1))
             st2 == IF ~Lt(At(st1.arr, j), At(st1.arr, j + 1))
                    THEN [Emit(st1, SwapStep(j, j + 1))
                            EXCEPT !.arr = SwapAt(@, j, j + 1)]
                    ELSE st1
         IN BubbleLoopSwapsTies(i, j + 1, st2)

RECURSIVE BubbleLoop(_, _, _)
BubbleLoop(i, j, st) ==
    LET n == Len(st.arr) IN
    IF ~(i < n - 1) THEN st
    ELSE IF ~(j < n - i - 1) THEN BubbleLoop(i + 1, 0, st)
    ELSE LET st1 == Emit(st, CompareStep(j, j + 1))
             st2 == IF Gt(At(st1.arr, j), At(st1.arr, j + 1))
                    THEN [Emit(st1, SwapStep(j, j + 1))
                            EXCEPT !.arr = SwapAt(@, j, j + 1)]
                    ELSE st1
         IN BubbleLoop(i, j + 1, st2)

generateBubbleSortSteps(arr) == GenEnd(BubbleLoop(0, 0, GenStart(arr)))

\* the inner scan with the comparison turned round (it tracks the maximum)
RECURSIVE SelectionScanMax(_, _, _)
SelectionScanMax(j, minIdx, st) ==
    IF ~(j < Len(st.arr)) THEN [st |-> st, minIdx |-> minIdx]
    ELSE LET st1 == Emit(st, CompareStep(j, minIdx))
             m1 == IF Gt(At(st1.arr, j), At(st1.arr, minIdx)) THEN j ELSE minIdx
         IN SelectionScanMax(j + 1, m1, st1)

\* the inner scan of selection sort: returns the run and minIdx
RECURSIVE SelectionScan(_, _, _)
SelectionScan(j, minIdx, st) ==
    IF ~(j < Len(st.arr)) THEN [st |-> st, minIdx |-> minIdx]
    ELSE LET st1 == Emit(st, CompareStep(j, minIdx))
             m1 == IF Lt(At(st1.arr, j), At(st1.arr, minIdx)) THEN j ELSE minIdx
         IN SelectionScan(j + 1, m1, st1)

RECURSIVE SelectionLoop(_, _)
SelectionLoop(i, st) ==
    IF ~(i < Len(st.arr) - 1) THEN st
    ELSE LET r == SelectionScan(i + 1, i, st)
             st2 == IF r.minIdx # i
                    THEN [Emit(r.st, SwapStep(i, r.minIdx))
                            EXCEPT !.arr = SwapAt(@, i, r.minIdx)]
                    ELSE r.st
         IN SelectionLoop(i + 1, st2)

generateSelectionSortSteps(arr) == GenEnd(SelectionLoop(0, GenStart(arr)))

\* the while loop without the `if (j >= 0)` before its compare step
RECURSIVE InsertionShiftAlwaysCompares(_, _, _, _)
InsertionShiftAlwaysCompares(i, j, key, st) ==
    IF ~(j >= 0 /\ Gt(At(st.arr, j), key)) THEN [st |-> st, j |-> j]
    ELSE LET st1 == [Emit(st, ShiftStep(j, j + 1))
                       EXCEPT !.arr = Put(@, j + 1, At(@, j))]
             j1 == j - 1
             st2 == Emit(st1, CompareStep(i, j1))
         IN InsertionShiftAlwaysCompares(i, j1, key, st2)

\* the while loop of insertion sort: returns the run and j
RECURSIVE InsertionShift(_, _, _, _)
InsertionShift(i, j, key, st) ==
    IF ~(j >= 0 /\ Gt(At(st.arr, j), key)) THEN [st |-> st, j |-> j]
    ELSE LET st1 == [Emit(st, ShiftStep(j, j + 1))
                       EXCEPT !.arr = Put(@, j + 1, At(@, j))]
             j1 == j - 1
             st2 == IF j1 >= 0 THEN Emit(st1, CompareStep(i, j1)) ELSE st1
         IN InsertionShift(i, j1, key, st2)

\* insertion sort leaving out the insert step of a key that stays in place
RECURSIVE InsertionLoopSkipping(_, _)
InsertionLoopSkipping(i, st) ==
    IF ~(i < Len(st.arr)) THEN st
    ELSE LET key == At(st.arr, i)
             st1 == Emit(st, CompareStep(i, i - 1))
             r == InsertionShift(i, i - 1, key, st1)
             st2 == IF r.j + 1 = i THEN r.st
                    ELSE [Emit(r.st, InsertStep(r.j + 1, key))
                            EXCEPT !.arr = Put(@, r.j + 1, key)]
         IN InsertionLoopSkipping(i + 1, st2)

RECURSIVE InsertionLoop(_, _)
InsertionLoop(i, st) ==
    IF ~(i < Len(st.arr)) THEN st
    ELSE LET key == At(st.arr, i)
             st1 == Emit(st, CompareStep(i, i - 1))
             r == InsertionShift(i, i - 1, key, st1)
             st2 == [Emit(r.st, InsertStep(r.j + 1, key))
                       EXCEPT !.arr = Put(@, r.j + 1, key)]
         IN InsertionLoop(i + 1, st2)

generateInsertionSortSteps(arr) == GenEnd(InsertionLoop(1, GenStart(arr)))

\* the switch of prepareSort: an unknown selector generates nothing
GenerateSteps(sortType, arr) ==
    CASE sortType = "bubbleSort" -> generateBubbleSortSteps(arr)
      [] sortType = "selectionSort" -> generateSelectionSortSteps(arr)
      [] sortType = "insertionSort" -> generateInsertionSortSteps(arr)
      [] OTHER -> GenEnd(GenStart(arr))

(* ---------------------- applying a step (stepForward) ------------------ *)

\* stepForward with the shift copying in the wrong direction
ApplyStepShiftBack(arr, step) ==
    CASE step.type = "swap" -> SwapAt(arr, step.indices[1], step.indices[2])
      [] step.type = "shift" ->
            Put(arr, step.indices[1], At(arr, step.indices[2]))
      [] step.type = "insert" -> Put(arr, step.index, step.value)
      [] OTHER -> arr

\* the data mutation stepForward performs for one step
ApplyStep(arr, step) ==
    CASE step.type = "swap" -> SwapAt(arr, step.indices[1], step.indices[2])
      [] step.type = "shift" ->
            Put(arr, step.indices[2], At(arr, step.indices[1]))
      [] step.type = "insert" -> Put(arr, step.index, step.value)
      [] OTHER -> arr

(* ------------------------------- state --------------------------------- *)

VARIABLES
    array,            \* this.array
    prefixSumArray,   \* this.prefixSumArray: [isNull, cells]
    animationQueue,   \* this.animationQueue
    currentStep,      \* this.currentStep
    isPlaying,        \* this.isPlaying
    playPauseBtnText, \* playPauseBtn.textContent
    tasks,            \* the async functions suspended in a sleep, oldest timer first
    base,             \* history: this.array as it was when the queue was prepared
    algo,             \* history: the selector of the last prepareSort call the
                      \* gate let through ("tooShort" if it generated nothing)
    page,             \* which visualizer's page is open (each page is a
                      \* program of its own: one class, one event loop)
    isAnimating,      \* this.isAnimating of the open page's visualizer
    queue,            \* QueueVisualizer: this.queue
    stack,            \* StackVisualizer: this.stack
    head,             \* LinkedListVisualizer: the values of the nodes from
                      \* this.head along next
    dll,              \* DoublyLinkedListVisualizer: [head, tail, nodes]
    tree,             \* BinaryTreeVisualizer: [root, nodes]
    setTable,         \* HashSetVisualizer: this.table, each chain as its values
    mapTable,         \* HashMapVisualizer: this.table, each chain as its [key, value]
    arrayList         \* ArrayListVisualizer: [elements, size, capacity]

\* the fields of ArrayVisualizer (and the two history variables)
arrayPage == <<array, prefixSumArray, animationQueue, currentStep, isPlaying,
               playPauseBtnText, base, algo>>

vars ==
    <<arrayPage, tasks, page, isAnimating, queue, stack, head, dll, tree,
      setTable, mapTable, arrayList>>

\* what the array page leaves alone: the other pages' visualizers
notArray ==
    <<page, isAnimating, queue, stack, head, dll, tree, setTable, mapTable,
      arrayList>>

\* JavaScript's null as a node reference; the nodes are numbered from 1
Null == 0

\* a node object not (or no longer) in use, and new Node(value)
FreeNode == [value |-> "", next |-> Null, previous |-> Null, live |-> FALSE]
NewNode(value) ==
    [value |-> value, next |-> Null, previous |-> Null, live |-> TRUE]

\* DoublyLinkedListVisualizer after its constructor
EmptyDll ==
    [head |-> Null, tail |-> Null, nodes |-> [n \in 1..MaxNodes |-> FreeNode]]

\* a tree node object not in use, and new Node(value) of the binary tree
FreeTreeNode == [value |-> 0, left |-> Null, right |-> Null, live |-> FALSE]
NewTreeNode(value) ==
    [value |-> value, left |-> Null, right |-> Null, live |-> TRUE]

\* BinaryTreeVisualizer after its constructor
EmptyTree == [root |-> Null, nodes |-> [n \in 1..MaxTreeNodes |-> FreeTreeNode]]

\* new Array(size).fill(null): the chains of the 7 buckets
EmptyTable == [b \in 0..(HashSize - 1) |-> <<>>]

\* the hash map's new Array(size).fill(null)
EmptyMapTable == [b \in 0..(HashSize - 1) |-> <<>>]

\* a slot of the array list: null, or a text (its character codes)
NullSlot == [isNull |-> TRUE, text |-> <<>>]
Slot(text) == [isNull |-> FALSE, text |-> text]

\* new Array(capacity).fill(null)
NullSlots(capacity) == [k \in 1..capacity |-> NullSlot]

\* ArrayListVisualizer after its constructor
EmptyArrayList ==
    [elements |-> NullSlots(InitialCapacity), size |-> 0,
     capacity |-> InitialCapacity]

\* the array page is open; no other visualizer exists
OnArrayPage ==
    /\ page = "array"
    /\ isAnimating = FALSE
    /\ queue = <<>>
    /\ stack = <<>>
    /\ head = <<>>
    /\ dll = EmptyDll
    /\ tree = EmptyTree
    /\ setTable = EmptyTable
    /\ mapTable = EmptyMapTable
    /\ arrayList = EmptyArrayList

\* this.prefixSumArray = null / = [..]
NullPrefix == [isNull |-> TRUE, cells |-> <<>>]
PrefixOf(cells) == [isNull |-> FALSE, cells |-> cells]

\* a suspended async function: which one (kind), the await it sits in (pc)
\* and its locals (step of stepForward; index of delete; i and currentSum of
\* generatePrefixSum)
Task(kind, pc, step, index, sum) ==
    [kind |-> kind, pc |-> pc, step |-> step, index |-> index, sum |-> sum]
StepTask(step) == Task("step", "hold", step, Undef, Undef)
PlayTask(pc, step) == Task("play", pc, step, Undef, Undef)
InsertTask == Task("insert", "hold", NoStep, Undef, Undef)
DeleteTask(index) == Task("delete", "hold", NoStep, index, Undef)
PrefixTask(i, sum) == Task("prefix", "hold", NoStep, i, sum)

\* the length of the sleep a task sits in
Duration(t) ==
    CASE t.kind \in {"insert", "delete"} -> EditHoldMs
      [] t.kind = "prefix" -> PrefixHoldMs
      [] t.kind = "play" /\ t.pc = "gap" -> PlayGapMs
      [] t.kind \in {"enqueue", "dequeue", "push", "pop"} -> SlotHoldMs
      [] t.kind = "peek" -> PeekHoldMs
      [] t.kind = "clear" -> SweepHoldMs
      [] t.kind \in {"addFirst", "addLastShow", "removeFirst", "removeLastCut",
                     "addLast", "removeLast"}
            -> NodeHoldMs
      [] t.kind \in {"addLastWalk", "removeLastWalk", "searchWalk"}
            -> WalkHoldMs
      [] t.kind = "searchFound" -> FoundHoldMs
      [] t.kind = "removeLastOne" -> 0
      [] t.kind \in {"treeInsertWalk", "checkBalanced", "findDiameter"}
            -> WalkHoldMs
      [] t.kind = "treeInsertShow" -> NodeHoldMs
      [] t.kind = "treeSearch" -> TreeSearchHoldMs
      [] t.kind = "traverse" /\ t.pc = "visiting" -> WalkHoldMs
      [] t.kind = "traverse" /\ t.pc = "visited" -> VisitedHoldMs
      [] t.kind = "traverse" /\ t.pc = "end" -> FoundHoldMs
      [] t.kind = "resize" ->
            CASE t.pc = "start" -> PrefixHoldMs
              [] t.pc = "copy" -> StepHoldMs
              [] OTHER -> EditHoldMs
      [] t.kind = "listShow" -> NodeHoldMs
      [] t.kind \in {"listShift", "listClose"} -> ShiftHoldMs
      [] t.kind \in {"listRemove", "listReverse"} -> WalkHoldMs
      [] t.kind \in {"listGet", "listSet"} -> FoundHoldMs
      [] t.kind = "listSort" -> CompareHoldMs
      [] t.kind \in {"setAdd", "setRemove", "setContains",
                     "mapSet", "mapGet", "mapDelete"}
            -> IF t.pc \in {"hash", "walk"} THEN HashHoldMs ELSE BucketHoldMs
      [] OTHER -> StepHoldMs

\* setTimeout order: a timer started earlier with a delay no longer than
\* that of tasks[i] fires before it; clicks come at any time, so timers are
\* otherwise unordered
CanFire(i) == \A j \in 1..(i - 1) : Duration(tasks[j]) > Duration(tasks[i])

Without(i) == SubSeq(tasks, 1, i - 1) \o SubSeq(tasks, i + 1, Len(tasks))

\* room for one more suspended function (model bound)
Room == Len(tasks) < MaxTasks

Init ==
    /\ array = <<>>
    /\ prefixSumArray = NullPrefix
    /\ animationQueue = <<>>
    /\ currentStep = 0
    /\ isPlaying = FALSE
    /\ playPauseBtnText = "Play"
    /\ tasks = <<>>
    /\ base = <<>>
    /\ algo = "none"
    /\ OnArrayPage

(* ------------------------------ create --------------------------------- *)

\* create(size); vals are the random values drawn.  parseInt gives NaN for an
\* empty size field: both range tests are then false and Array.from makes
\* an empty array.
create(size, vals) ==
    IF isPlaying THEN UNCHANGED vars
    ELSE IF size # NaN /\ (size <= 0 \/ size > MaxArraySize)
    THEN UNCHANGED vars
    ELSE /\ Len(vals) = (IF size = NaN THEN 0 ELSE size)
         /\ array' = vals
         /\ prefixSumArray' = NullPrefix
         /\ UNCHANGED <<animationQueue, currentStep, isPlaying,
                        playPauseBtnText, tasks, base, algo>>

CreateClick ==
    \E size \in {NaN, 0, MaxArraySize + 1} \cup (1..MaxLen) :
        \E vals \in [1..(IF size \in 1..MaxLen THEN size ELSE 0) -> Values] :
            create(size, vals)

(* ------------------------- insert and delete --------------------------- *)

\* insert(value, index) up to its sleep(800)
insert(value, index) ==
    IF isPlaying \/ index < 0 \/ index > Len(array)
       \/ Len(array) >= MaxArraySize
    THEN UNCHANGED vars
    ELSE /\ Len(array) < MaxLen
         /\ Room
         /\ array' = SpliceIn(array, index, value)
         /\ prefixSumArray' = NullPrefix
         /\ tasks' = Append(tasks, InsertTask)
         /\ UNCHANGED <<animationQueue, currentStep, isPlaying,
                        playPauseBtnText, base, algo>>

InsertClick ==
    \E value \in Values : \E index \in -1..MaxLen : insert(value, index)

\* insert after its sleep: draw() and updateInfo() only
InsertResume(i) ==
    /\ tasks[i].kind = "insert"
    /\ tasks' = Without(i)
    /\ UNCHANGED <<array, prefixSumArray, animationQueue, currentStep,
                   isPlaying, playPauseBtnText, base, algo>>

\* delete(index) up to its sleep(800)
delete(index) ==
    IF isPlaying \/ index < 0 \/ index >= Len(array)
    THEN UNCHANGED vars
    ELSE /\ Room
         /\ prefixSumArray' = NullPrefix
         /\ tasks' = Append(tasks, DeleteTask(index))
         /\ UNCHANGED <<array, animationQueue, currentStep, isPlaying,
                        playPauseBtnText, base, algo>>

DeleteClick == \E index \in -1..MaxLen : delete(index)

\* delete after its sleep: this.array.splice(index, 1)
DeleteResume(i) ==
    /\ tasks[i].kind = "delete"
    /\ array' = SpliceOut(array, tasks[i].index)
    /\ tasks' = Without(i)
    /\ UNCHANGED <<prefixSumArray, animationQueue, currentStep, isPlaying,
                   playPauseBtnText, base, algo>>

(* ----------------------------- prefix sums ----------------------------- *)

\* generatePrefixSum() up to its first sleep(500)
generatePrefixSum ==
    IF isPlaying \/ Len(array) = 0 THEN UNCHANGED vars
    ELSE /\ Room
         /\ isPlaying' = TRUE
         /\ prefixSumArray' = PrefixOf(<<Plus(0, At(array, 0))>>)
         /\ tasks' = Append(tasks, PrefixTask(0, Plus(0, At(array, 0))))
         /\ UNCHANGED <<array, animationQueue, currentStep,
                        playPauseBtnText, base, algo>>

PrefixSumClick == generatePrefixSum

\* generatePrefixSum after a sleep: i++, then the next round of the loop or
\* its end.  this.prefixSumArray.push throws when another operation has set
\* the field to null meanwhile: the function ends there and never reaches
\* its `this.isPlaying = false`.
PrefixResume(k) ==
    LET t == tasks[k]
        i == t.index + 1
        sum == Plus(t.sum, At(array, i))
    IN  /\ t.kind = "prefix"
        /\ IF i < Len(array)
           THEN IF prefixSumArray.isNull
                THEN /\ tasks' = Without(k)
                     /\ UNCHANGED <<prefixSumArray, isPlaying>>
                ELSE /\ prefixSumArray' =
                            PrefixOf(Append(prefixSumArray.cells, sum))
                     /\ tasks' = Append(Without(k), PrefixTask(i, sum))
                     /\ UNCHANGED isPlaying
           ELSE /\ isPlaying' = FALSE
                /\ tasks' = Without(k)
                /\ UNCHANGED prefixSumArray
        /\ UNCHANGED <<array, animationQueue, currentStep, playPauseBtnText,
                       base, algo>>

\* getRangeSum(start, end): reads only; the result goes to the message box
getRangeSum(start, end) ==
    IF isPlaying THEN UNCHANGED vars
    ELSE IF prefixSumArray.isNull THEN UNCHANGED vars
    ELSE IF start = NaN \/ end = NaN \/ start < 0 \/ end >= Len(array)
            \/ start > end
    THEN UNCHANGED vars
    ELSE UNCHANGED vars

RangeSumClick ==
    \E start \in {NaN} \cup (-1..(MaxLen - 1)) :
        \E end \in {NaN} \cup (0..MaxLen) : getRangeSum(start, end)

(* ------------------------------ prepareSort ---------------------------- *)

\* prepareSort emptying the queue before it tests the length
prepareSortClearing(sortType, note) ==
    IF isPlaying THEN UNCHANGED vars
    ELSE IF Len(array) <= 1
    THEN /\ algo' = note
         /\ animationQueue' = <<>>
         /\ currentStep' = 0
         /\ UNCHANGED <<array, prefixSumArray, isPlaying, playPauseBtnText,
                        tasks, base>>
    ELSE /\ prefixSumArray' = NullPrefix
         /\ animationQueue' = GenerateSteps(sortType, array).q
         /\ currentStep' = 0
         /\ base' = array
         /\ algo' = sortType
         /\ array' = array
         /\ UNCHANGED <<isPlaying, playPauseBtnText, tasks>>

\* prepareSort without its `this.animationQueue = []`
prepareSortAppending(sortType, note) ==
    IF isPlaying THEN UNCHANGED vars
    ELSE IF Len(array) <= 1
    THEN /\ algo' = note
         /\ UNCHANGED <<array, prefixSumArray, animationQueue, currentStep,
                        isPlaying, playPauseBtnText, tasks, base>>
    ELSE /\ prefixSumArray' = NullPrefix
         /\ animationQueue' = animationQueue \o GenerateSteps(sortType, array).q
         /\ currentStep' = 0
         /\ base' = array
         /\ algo' = sortType
         /\ array' = array
         /\ UNCHANGED <<isPlaying, playPauseBtnText, tasks>>

\* prepareSort handing the live array itself to the generator
prepareSortInPlace(sortType, note) ==
    IF isPlaying THEN UNCHANGED vars
    ELSE IF Len(array) <= 1
    THEN /\ algo' = note
         /\ UNCHANGED <<array, prefixSumArray, animationQueue, currentStep,
                        isPlaying, playPauseBtnText, tasks, base>>
    ELSE /\ prefixSumArray' = NullPrefix
         /\ animationQueue' = GenerateSteps(sortType, array).q
         /\ currentStep' = 0
         /\ base' = array
         /\ algo' = sortType
         /\ array' = GenerateSteps(sortType, array).arr
         /\ UNCHANGED <<isPlaying, playPauseBtnText, tasks>>

\* prepareSort(sortType).  `note` is what the history variable algo becomes
\* when the call returns at once because the array is too short: the
\* program keeps no trace of such a call.
prepareSortNoting(sortType, note) ==
    IF isPlaying THEN UNCHANGED vars
    ELSE IF Len(array) <= 1
    THEN /\ algo' = note
         /\ UNCHANGED <<array, prefixSumArray, animationQueue, currentStep,
                        isPlaying, playPauseBtnText, tasks, base>>
    ELSE /\ prefixSumArray' = NullPrefix
         /\ animationQueue' = GenerateSteps(sortType, array).q
         /\ currentStep' = 0
         /\ base' = array
         /\ algo' = sortType
         /\ UNCHANGED <<array, isPlaying, playPauseBtnText, tasks>>

prepareSort(sortType) == prepareSortNoting(sortType, algo)

SortClick == \E sortType \in SortTypes : prepareSort(sortType)

(* ------------------------------- playback ------------------------------ *)

\* stepForward() incrementing the cursor on an exhausted queue as well
stepForwardPastEnd ==
    IF currentStep >= Len(animationQueue)
    THEN /\ isPlaying' = FALSE
         /\ playPauseBtnText' = "Play"
         /\ currentStep' = currentStep + 1
         /\ UNCHANGED <<array, prefixSumArray, animationQueue, tasks, base,
                        algo>>
    ELSE LET step == animationQueue[currentStep + 1] IN
         IF step.type = "compare"
         THEN /\ currentStep' = currentStep + 1
              /\ UNCHANGED <<array, prefixSumArray, animationQueue, isPlaying,
                             playPauseBtnText, tasks, base, algo>>
         ELSE /\ Room
              /\ tasks' = Append(tasks, StepTask(step))
              /\ UNCHANGED <<array, prefixSumArray, animationQueue,
                             currentStep, isPlaying, playPauseBtnText,
                             base, algo>>

\* stepForward() called from the step button, up to its sleep(250) or, for
\* a compare step and for an exhausted queue, to its end
stepForward ==
    IF currentStep >= Len(animationQueue)
    THEN /\ isPlaying' = FALSE
         /\ playPauseBtnText' = "Play"
         /\ UNCHANGED <<array, prefixSumArray, animationQueue, currentStep,
                        tasks, base, algo>>
    ELSE LET step == animationQueue[currentStep + 1] IN
         IF step.type = "compare"
         THEN /\ currentStep' = currentStep + 1
              /\ UNCHANGED <<array, prefixSumArray, animationQueue, isPlaying,
                             playPauseBtnText, tasks, base, algo>>
         ELSE /\ Room
              /\ tasks' = Append(tasks, StepTask(step))
              /\ UNCHANGED <<array, prefixSumArray, animationQueue,
                             currentStep, isPlaying, playPauseBtnText,
                             base, algo>>

\* stepBtn click: if (!this.isPlaying) this.stepForward()
StepClick == IF isPlaying THEN UNCHANGED vars ELSE stepForward

\* stepForward after its sleep(250) ending at the mutation: the increment
\* is left to a later segment
StepResumeNoAdvance(i) ==
    /\ tasks[i].kind = "step"
    /\ array' = ApplyStep(array, tasks[i].step)
    /\ currentStep' = currentStep
    /\ tasks' = Without(i)
    /\ UNCHANGED <<prefixSumArray, animationQueue, isPlaying,
                   playPauseBtnText, base, algo>>

\* stepForward after its sleep(250): the mutation of the step it read before
\* the sleep, then this.currentStep++
StepResume(i) ==
    /\ tasks[i].kind = "step"
    /\ array' = ApplyStep(array, tasks[i].step)
    /\ currentStep' = currentStep + 1
    /\ tasks' = Without(i)
    /\ UNCHANGED <<prefixSumArray, animationQueue, isPlaying,
                   playPauseBtnText, base, algo>>

\* One test of play()'s `while (this.isPlaying && this.currentStep < length)`
\* and what follows it up to the next sleep: the loop body's stepForward()
\* call (a compare step ends at once and play goes on to its sleep(400)), or
\* the code after the loop.  `playing` and `text` are this.isPlaying and the
\* button text at that point, `others` the other suspended functions.
PlayLoop(playing, text, others) ==
    IF playing /\ currentStep < Len(animationQueue)
    THEN LET step == animationQueue[currentStep + 1] IN
         /\ Len(others) < MaxTasks
         /\ isPlaying' = playing
         /\ playPauseBtnText' = text
         /\ IF step.type = "compare"
            THEN /\ currentStep' = currentStep + 1
                 /\ tasks' = Append(others, PlayTask("gap", NoStep))
            ELSE /\ currentStep' = currentStep
                 /\ tasks' = Append(others, PlayTask("hold", step))
    ELSE /\ isPlaying' = FALSE
         /\ playPauseBtnText' = IF playing THEN "Play" ELSE text
         /\ currentStep' = currentStep
         /\ tasks' = others

\* play() up to its first sleep
play ==
    IF Len(animationQueue) = 0 THEN UNCHANGED vars
    ELSE /\ PlayLoop(TRUE, "Pause", tasks)
         /\ UNCHANGED <<array, prefixSumArray, animationQueue, base, algo>>

pause ==
    /\ isPlaying' = FALSE
    /\ playPauseBtnText' = "Play"
    /\ UNCHANGED <<array, prefixSumArray, animationQueue, currentStep, tasks,
                   base, algo>>

\* playPauseBtn click: if (this.isPlaying) this.pause(); else this.play()
PlayPauseClick == IF isPlaying THEN pause ELSE play

\* play()'s stepForward() after its sleep, without `this.currentStep++`
PlayHoldResumeNoAdvance(i) ==
    /\ tasks[i].kind = "play"
    /\ tasks[i].pc = "hold"
    /\ array' = ApplyStep(array, tasks[i].step)
    /\ currentStep' = currentStep
    /\ tasks' = Append(Without(i), PlayTask("gap", NoStep))
    /\ UNCHANGED <<prefixSumArray, animationQueue, isPlaying,
                   playPauseBtnText, base, algo>>

\* play()'s stepForward() after its sleep(250): the mutation and the
\* increment; play() then starts its sleep(400)
PlayHoldResume(i) ==
    /\ tasks[i].kind = "play"
    /\ tasks[i].pc = "hold"
    /\ array' = ApplyStep(array, tasks[i].step)
    /\ currentStep' = currentStep + 1
    /\ tasks' = Append(Without(i), PlayTask("gap", NoStep))
    /\ UNCHANGED <<prefixSumArray, animationQueue, isPlaying,
                   playPauseBtnText, base, algo>>

\* play() after its sleep(400): the next test of the loop
PlayGapResume(i) ==
    /\ tasks[i].kind = "play"
    /\ tasks[i].pc = "gap"
    /\ PlayLoop(isPlaying, playPauseBtnText, Without(i))
    /\ UNCHANGED <<array, prefixSumArray, animationQueue, base, algo>>

(* --------------------------- the event loop ---------------------------- *)

\* a timer fires and the function waiting for it runs on
Resume(i) ==
    /\ CanFire(i)
    /\ \/ StepResume(i)
       \/ PlayHoldResume(i)
       \/ PlayGapResume(i)
       \/ InsertResume(i)
       \/ DeleteResume(i)
       \/ PrefixResume(i)

TimerFires == \E i \in 1..Len(tasks) : Resume(i)

Next ==
    \/ CreateClick /\ UNCHANGED notArray
    \/ InsertClick /\ UNCHANGED notArray
    \/ DeleteClick /\ UNCHANGED notArray
    \/ PrefixSumClick /\ UNCHANGED notArray
    \/ RangeSumClick /\ UNCHANGED notArray
    \/ SortClick /\ UNCHANGED notArray
    \/ StepClick /\ UNCHANGED notArray
    \/ PlayPauseClick /\ UNCHANGED notArray
    \/ TimerFires /\ UNCHANGED notArray

Spec == Init /\ [][Next]_vars

(* ------------------- playback alone, from any array -------------------- *)

\* every array create() can leave behind, and the empty one
InputArrays == UNION {[1..n -> Values] : n \in 0..MaxLen}

InitPlayback ==
    /\ array \in InputArrays
    /\ prefixSumArray = NullPrefix
    /\ animationQueue = <<>>
    /\ currentStep = 0
    /\ isPlaying = FALSE
    /\ playPauseBtnText = "Play"
    /\ tasks = <<>>
    /\ base = array
    /\ algo = "none"
    /\ OnArrayPage

\* the sort, step and play-pause buttons and the timers, in any order
NextPlayback ==
    \/ SortClick /\ UNCHANGED notArray
    \/ StepClick /\ UNCHANGED notArray
    \/ PlayPauseClick /\ UNCHANGED notArray
    \/ TimerFires /\ UNCHANGED notArray

SpecPlayback == InitPlayback /\ [][NextPlayback]_vars

\* one prepareSort, then only the play-pause button
PrepareOnce == algo = "none" /\ SortClick

NextPauseResume ==
    \/ PrepareOnce /\ UNCHANGED notArray
    \/ PlayPauseClick /\ UNCHANGED notArray
    \/ TimerFires /\ UNCHANGED notArray

SpecPauseResume == InitPlayback /\ [][NextPauseResume]_vars

(* ------------------ sequential replay of a prepared run ---------------- *)

ReplayValues == MinValue..MaxReplayValue

ReplayInputs == UNION {[1..n -> ReplayValues] : n \in 0..MaxReplayLen}

InitReplay ==
    /\ array \in ReplayInputs
    /\ prefixSumArray = NullPrefix
    /\ animationQueue = <<>>
    /\ currentStep = 0
    /\ isPlaying = FALSE
    /\ playPauseBtnText = "Play"
    /\ tasks = <<>>
    /\ base = array
    /\ algo = "none"
    /\ OnArrayPage

\* a step request made when the step before it has finished
StepAlone == tasks = <<>> /\ StepClick

NextReplay ==
    \/ PrepareOnce /\ UNCHANGED notArray
    \/ StepAlone /\ UNCHANGED notArray
    \/ TimerFires /\ UNCHANGED notArray

SpecReplay == InitReplay /\ [][NextReplay]_vars

(* ------------- preparing runs, with every request on record ------------ *)

\* the values of the sort selector: the three algorithms and any other text
Selectors == SortTypes \cup {"otherSort"}

\* a click on the sort button; the history notes a call that returned
\* because the array was too short
SortRequest == \E sortType \in Selectors : prepareSortNoting(sortType, "tooShort")

\* sort, step, play-pause and delete requests and the timers
NextPrepare ==
    \/ SortRequest /\ UNCHANGED notArray
    \/ StepAlone /\ UNCHANGED notArray
    \/ PlayPauseClick /\ UNCHANGED notArray
    \/ DeleteClick /\ UNCHANGED notArray
    \/ TimerFires /\ UNCHANGED notArray

\* the arrays the runs are prepared from
PrepareInputs == UNION {[1..n -> Values] : n \in 0..MaxPrepareLen}

InitPrepare ==
    /\ array \in PrepareInputs
    /\ prefixSumArray = NullPrefix
    /\ animationQueue = <<>>
    /\ currentStep = 0
    /\ isPlaying = FALSE
    /\ playPauseBtnText = "Play"
    /\ tasks = <<>>
    /\ base = array
    /\ algo = "none"
    /\ OnArrayPage

SpecPrepare == InitPrepare /\ [][NextPrepare]_vars

\* the same requests and prefix sums, on the shorter arrays: the gate can be
\* held and prefixSumArray set when the sort button is clicked
NextReject ==
    \/ SortRequest /\ UNCHANGED notArray
    \/ StepAlone /\ UNCHANGED notArray
    \/ PlayPauseClick /\ UNCHANGED notArray
    \/ DeleteClick /\ UNCHANGED notArray
    \/ PrefixSumClick /\ UNCHANGED notArray
    \/ TimerFires /\ UNCHANGED notArray

SpecReject == InitPlayback /\ [][NextReject]_vars

(* ----------- sequential replay of the orderings of four values --------- *)

\* four small values, as the insert button can put them into the array
ExampleValues == {1, 3, 4, 5}

\* the arrays holding each of them once
ExampleInputs ==
    {a \in [1..4 -> ExampleValues] : \A i, j \in 1..4 : a[i] = a[j] => i = j}

InitExample ==
    /\ array \in ExampleInputs
    /\ prefixSumArray = NullPrefix
    /\ animationQueue = <<>>
    /\ currentStep = 0
    /\ isPlaying = FALSE
    /\ playPauseBtnText = "Play"
    /\ tasks = <<>>
    /\ base = array
    /\ algo = "none"
    /\ OnArrayPage

SpecExample == InitExample /\ [][NextReplay]_vars

(* ------------------- playback that is never paused --------------------- *)

\* a click on the play-pause button while nothing is playing or suspended:
\* it calls play()
PlayFromRest == ~isPlaying /\ tasks = <<>> /\ PlayPauseClick

\* one prepared run, step requests one at a time, play, and no pause
NextPlayToEnd ==
    \/ PrepareOnce /\ UNCHANGED notArray
    \/ StepAlone /\ UNCHANGED notArray
    \/ PlayFromRest /\ UNCHANGED notArray
    \/ TimerFires /\ UNCHANGED notArray

\* setTimeout callbacks are always run in the end
SpecPlayToEnd ==
    /\ InitReplay
    /\ [][NextPlayToEnd]_vars
    /\ WF_vars(TimerFires /\ UNCHANGED notArray)

(* --------------------------- the queue page ---------------------------- *)

\* the texts typed into the value field; "" is the empty field
Inputs == {"a", "b"}

\* what the queue page leaves alone
notQueue == <<arrayPage, page, stack, head, dll, tree, setTable, mapTable, arrayList>>

\* a suspended operation of the queue or the stack: only its name matters
OpTask(kind) == Task(kind, "hold", NoStep, Undef, Undef)

\* enqueue(value) with `>` for `>=` in its test of the capacity
enqueuePastFull(value) ==
    IF isAnimating THEN UNCHANGED vars
    ELSE IF Len(queue) > QueueMaxSize THEN UNCHANGED vars
    ELSE /\ Room
         /\ isAnimating' = TRUE
         /\ queue' = Append(queue, value)
         /\ tasks' = Append(tasks, OpTask("enqueue"))
         /\ UNCHANGED notQueue

\* enqueue(value) up to its sleep(600)
enqueue(value) ==
    IF isAnimating THEN UNCHANGED vars
    ELSE IF Len(queue) >= QueueMaxSize THEN UNCHANGED vars
    ELSE /\ Room
         /\ isAnimating' = TRUE
         /\ queue' = Append(queue, value)
         /\ tasks' = Append(tasks, OpTask("enqueue"))
         /\ UNCHANGED notQueue

\* enqueue-btn click: an empty value field only shows a message
EnqueueClick ==
    /\ page = "queue"
    /\ \E value \in Inputs \cup {""} :
          IF value = "" THEN UNCHANGED vars ELSE enqueue(value)

\* enqueue after its sleep
EnqueueResume(i) ==
    /\ tasks[i].kind = "enqueue"
    /\ isAnimating' = FALSE
    /\ tasks' = Without(i)
    /\ UNCHANGED <<queue, notQueue>>

\* dequeue() without its test of isAnimating
dequeueUngated ==
    IF Len(queue) = 0 THEN UNCHANGED vars
    ELSE /\ Room
         /\ isAnimating' = TRUE
         /\ tasks' = Append(tasks, OpTask("dequeue"))
         /\ UNCHANGED <<queue, notQueue>>

\* dequeue() up to its sleep(600)
dequeue ==
    IF isAnimating \/ Len(queue) = 0 THEN UNCHANGED vars
    ELSE /\ Room
         /\ isAnimating' = TRUE
         /\ tasks' = Append(tasks, OpTask("dequeue"))
         /\ UNCHANGED <<queue, notQueue>>

DequeueClick == page = "queue" /\ dequeue

\* this.queue.shift() and this.stack.pop() do nothing on an empty array
Shift(q) == IF q = <<>> THEN q ELSE Tail(q)
Pop(st) == IF st = <<>> THEN st ELSE SubSeq(st, 1, Len(st) - 1)

\* dequeue after its sleep: this.queue.shift()
DequeueResume(i) ==
    /\ tasks[i].kind = "dequeue"
    /\ queue' = Shift(queue)
    /\ isAnimating' = FALSE
    /\ tasks' = Without(i)
    /\ UNCHANGED notQueue

\* QueueVisualizer.peek() up to its sleep(800)
queuePeek ==
    IF isAnimating \/ Len(queue) = 0 THEN UNCHANGED vars
    ELSE /\ Room
         /\ isAnimating' = TRUE
         /\ tasks' = Append(tasks, OpTask("peek"))
         /\ UNCHANGED <<queue, notQueue>>

QueuePeekClick == page = "queue" /\ queuePeek

QueuePeekResume(i) ==
    /\ tasks[i].kind = "peek"
    /\ isAnimating' = FALSE
    /\ tasks' = Without(i)
    /\ UNCHANGED <<queue, notQueue>>

\* isEmpty() and size(): a message only
QueueInfoClick == page = "queue" /\ UNCHANGED vars

\* QueueVisualizer.clear() up to its first sleep(150)
queueClear ==
    IF isAnimating \/ Len(queue) = 0 THEN UNCHANGED vars
    ELSE /\ Room
         /\ isAnimating' = TRUE
         /\ tasks' = Append(tasks, OpTask("clear"))
         /\ UNCHANGED <<queue, notQueue>>

QueueClearClick == page = "queue" /\ queueClear

\* clear after a sleep, with an `if` in place of its `while`: it ends after
\* one element
QueueClearResumeOnce(i) ==
    /\ tasks[i].kind = "clear"
    /\ queue' = Shift(queue)
    /\ tasks' = Without(i)
    /\ isAnimating' = FALSE
    /\ UNCHANGED notQueue

\* clear after a sleep: this.queue.shift(), then the next round of the loop
\* or its end
QueueClearResume(i) ==
    /\ tasks[i].kind = "clear"
    /\ queue' = Shift(queue)
    /\ IF Len(queue') > 0
       THEN /\ tasks' = Append(Without(i), OpTask("clear"))
            /\ UNCHANGED isAnimating
       ELSE /\ tasks' = Without(i)
            /\ isAnimating' = FALSE
    /\ UNCHANGED notQueue

QueueTimerFires ==
    /\ page = "queue"
    /\ \E i \in 1..Len(tasks) :
          /\ CanFire(i)
          /\ \/ EnqueueResume(i)
             \/ DequeueResume(i)
             \/ QueuePeekResume(i)
             \/ QueueClearResume(i)

(* --------------------------- the stack page ---------------------------- *)

\* what the stack page leaves alone
notStack == <<arrayPage, page, queue, head, dll, tree, setTable, mapTable, arrayList>>

\* push(value) up to its sleep(600)
push(value) ==
    IF isAnimating THEN UNCHANGED vars
    ELSE IF Len(stack) >= StackMaxSize THEN UNCHANGED vars
    ELSE /\ Room
         /\ isAnimating' = TRUE
         /\ stack' = Append(stack, value)
         /\ tasks' = Append(tasks, OpTask("push"))
         /\ UNCHANGED notStack

\* push-btn click: an empty value field only shows a message
PushClick ==
    /\ page = "stack"
    /\ \E value \in Inputs \cup {""} :
          IF value = "" THEN UNCHANGED vars ELSE push(value)

PushResume(i) ==
    /\ tasks[i].kind = "push"
    /\ isAnimating' = FALSE
    /\ tasks' = Without(i)
    /\ UNCHANGED <<stack, notStack>>

\* pop() up to its sleep(600)
pop ==
    IF isAnimating \/ Len(stack) = 0 THEN UNCHANGED vars
    ELSE /\ Room
         /\ isAnimating' = TRUE
         /\ tasks' = Append(tasks, OpTask("pop"))
         /\ UNCHANGED <<stack, notStack>>

PopClick == page = "stack" /\ pop

\* pop after its sleep: this.stack.pop()
PopResume(i) ==
    /\ tasks[i].kind = "pop"
    /\ stack' = Pop(stack)
    /\ isAnimating' = FALSE
    /\ tasks' = Without(i)
    /\ UNCHANGED notStack

\* StackVisualizer.peek() up to its sleep(800)
stackPeek ==
    IF isAnimating \/ Len(stack) = 0 THEN UNCHANGED vars
    ELSE /\ Room
         /\ isAnimating' = TRUE
         /\ tasks' = Append(tasks, OpTask("peek"))
         /\ UNCHANGED <<stack, notStack>>

StackPeekClick == page = "stack" /\ stackPeek

StackPeekResume(i) ==
    /\ tasks[i].kind = "peek"
    /\ isAnimating' = FALSE
    /\ tasks' = Without(i)
    /\ UNCHANGED <<stack, notStack>>

\* isEmpty() and size(): a message only
StackInfoClick == page = "stack" /\ UNCHANGED vars

\* StackVisualizer.clear() up to its first sleep(150)
stackClear ==
    IF isAnimating \/ Len(stack) = 0 THEN UNCHANGED vars
    ELSE /\ Room
         /\ isAnimating' = TRUE
         /\ tasks' = Append(tasks, OpTask("clear"))
         /\ UNCHANGED <<stack, notStack>>

StackClearClick == page = "stack" /\ stackClear

\* clear after a sleep: this.stack.pop(), then the next round or the end
StackClearResume(i) ==
    /\ tasks[i].kind = "clear"
    /\ stack' = Pop(stack)
    /\ IF Len(stack') > 0
       THEN /\ tasks' = Append(Without(i), OpTask("clear"))
            /\ UNCHANGED isAnimating
       ELSE /\ tasks' = Without(i)
            /\ isAnimating' = FALSE
    /\ UNCHANGED notStack

StackTimerFires ==
    /\ page = "stack"
    /\ \E i \in 1..Len(tasks) :
          /\ CanFire(i)
          /\ \/ PushResume(i)
             \/ StackPeekResume(i)
             \/ PopResume(i)
             \/ StackClearResume(i)

(* ---------------------- the queue or the stack page -------------------- *)

\* one of the two pages is open, its visualizer just constructed
InitQueueStack ==
    /\ page \in {"queue", "stack"}
    /\ isAnimating = FALSE
    /\ queue = <<>>
    /\ stack = <<>>
    /\ head = <<>>
    /\ dll = EmptyDll
    /\ tree = EmptyTree
    /\ setTable = EmptyTable
    /\ mapTable = EmptyMapTable
    /\ arrayList = EmptyArrayList
    /\ tasks = <<>>
    /\ array = <<>>
    /\ prefixSumArray = NullPrefix
    /\ animationQueue = <<>>
    /\ currentStep = 0
    /\ isPlaying = FALSE
    /\ playPauseBtnText = "Play"
    /\ base = <<>>
    /\ algo = "none"

NextQueueStack ==
    \/ EnqueueClick
    \/ DequeueClick
    \/ QueuePeekClick
    \/ QueueInfoClick
    \/ QueueClearClick
    \/ QueueTimerFires
    \/ PushClick
    \/ PopClick
    \/ StackPeekClick
    \/ StackInfoClick
    \/ StackClearClick
    \/ StackTimerFires

SpecQueueStack == InitQueueStack /\ [][NextQueueStack]_vars

\* setTimeout callbacks are always run in the end
SpecQueueStackFair ==
    /\ SpecQueueStack
    /\ WF_vars(QueueTimerFires)
    /\ WF_vars(StackTimerFires)

(* ------------------------ the linked-list page ------------------------- *)

\* what the linked-list page leaves alone
notList == <<arrayPage, page, queue, stack, dll, tree, setTable, mapTable, arrayList>>

\* a suspended operation of the list: `current` is the node at index pos
\* (from 0), value the operation's argument
ListTask(kind, pos, value) == Task(kind, "hold", NoStep, pos, value)

\* addFirst(value) up to its sleep(600)
addFirst(value) ==
    IF isAnimating THEN UNCHANGED vars
    ELSE /\ Room
         /\ Len(head) < MaxNodes
         /\ isAnimating' = TRUE
         /\ head' = <<value>> \o head
         /\ tasks' = Append(tasks, ListTask("addFirst", 0, value))
         /\ UNCHANGED notList

\* add-first-btn click: nothing happens on an empty value field
AddFirstClick ==
    /\ page = "linkedList"
    /\ \E value \in Inputs \cup {""} :
          IF value = "" THEN UNCHANGED vars ELSE addFirst(value)

\* addFirst after its sleep; the finally block
AddFirstResume(i) ==
    /\ tasks[i].kind = "addFirst"
    /\ isAnimating' = FALSE
    /\ tasks' = Without(i)
    /\ UNCHANGED <<head, notList>>

\* addLast(value) up to its first sleep: the new node is the head of an
\* empty list, else the walk to the last node begins
addLast(value) ==
    IF isAnimating THEN UNCHANGED vars
    ELSE /\ Room
         /\ Len(head) < MaxNodes
         /\ isAnimating' = TRUE
         /\ IF head = <<>>
            THEN /\ head' = <<value>>
                 /\ tasks' = Append(tasks, ListTask("addLastShow", 0, value))
            ELSE /\ head' = head
                 /\ tasks' = Append(tasks, ListTask("addLastWalk", 0, value))
         /\ UNCHANGED notList

\* add-last-btn click
AddLastClick ==
    /\ page = "linkedList"
    /\ \E value \in Inputs \cup {""} :
          IF value = "" THEN UNCHANGED vars ELSE addLast(value)

\* addLast after a sleep(400): inside the loop `while (current.next)` the
\* walk moves on; after the loop the node is linked behind current
AddLastWalkResume(i) ==
    LET t == tasks[i] IN
    /\ t.kind = "addLastWalk"
    /\ IF t.index + 1 < Len(head)
       THEN /\ head' = head
            /\ tasks' = Append(Without(i),
                               ListTask("addLastWalk", t.index + 1, t.sum))
       ELSE /\ head' = Append(head, t.sum)
            /\ tasks' = Append(Without(i),
                               ListTask("addLastShow", t.index, t.sum))
    /\ UNCHANGED <<isAnimating, notList>>

\* addLast after its sleep(600); the finally block
AddLastShowResume(i) ==
    /\ tasks[i].kind = "addLastShow"
    /\ isAnimating' = FALSE
    /\ tasks' = Without(i)
    /\ UNCHANGED <<head, notList>>

\* removeFirst() up to its sleep(600)
removeFirst ==
    IF isAnimating \/ head = <<>> THEN UNCHANGED vars
    ELSE /\ Room
         /\ isAnimating' = TRUE
         /\ tasks' = Append(tasks, ListTask("removeFirst", 0, Undef))
         /\ UNCHANGED <<head, notList>>

RemoveFirstClick == page = "linkedList" /\ removeFirst

\* removeFirst after its sleep: this.head = this.head.next; the finally block
RemoveFirstResume(i) ==
    /\ tasks[i].kind = "removeFirst"
    /\ head' = Tail(head)
    /\ isAnimating' = FALSE
    /\ tasks' = Without(i)
    /\ UNCHANGED notList

\* removeLast() up to its first await.  On a list of one node it calls
\* removeFirst() with isAnimating already true: that call returns on its
\* first line, and removeLast waits for the promise it returned.
removeLast ==
    IF isAnimating \/ head = <<>> THEN UNCHANGED vars
    ELSE /\ Room
         /\ isAnimating' = TRUE
         /\ tasks' = Append(tasks,
                IF Len(head) = 1 THEN ListTask("removeLastOne", 0, Undef)
                ELSE IF Len(head) > 2 THEN ListTask("removeLastWalk", 0, Undef)
                ELSE ListTask("removeLastCut", 0, Undef))
         /\ UNCHANGED <<head, notList>>

RemoveLastClick == page = "linkedList" /\ removeLast

\* removeLast after `await this.removeFirst()` where the return skips the
\* finally block
RemoveLastOneResumeStaysBusy(i) ==
    /\ tasks[i].kind = "removeLastOne"
    /\ tasks' = Without(i)
    /\ UNCHANGED <<isAnimating, head, notList>>

\* removeLast after `await this.removeFirst()`: return, through the finally
\* block.  The continuation is a microtask: it runs before any timer or
\* click.
RemoveLastOneResume(i) ==
    /\ tasks[i].kind = "removeLastOne"
    /\ isAnimating' = FALSE
    /\ tasks' = Without(i)
    /\ UNCHANGED <<head, notList>>

\* removeLast after a sleep(400) of its walk to the node before the last
RemoveLastWalkResume(i) ==
    LET t == tasks[i] IN
    /\ t.kind = "removeLastWalk"
    /\ tasks' = Append(Without(i),
            IF t.index + 3 < Len(head)
            THEN ListTask("removeLastWalk", t.index + 1, Undef)
            ELSE ListTask("removeLastCut", t.index + 1, Undef))
    /\ UNCHANGED <<head, isAnimating, notList>>

\* removeLast after its sleep(600): current.next = null; the finally block
RemoveLastCutResume(i) ==
    /\ tasks[i].kind = "removeLastCut"
    /\ head' = SubSeq(head, 1, tasks[i].index + 1)
    /\ isAnimating' = FALSE
    /\ tasks' = Without(i)
    /\ UNCHANGED notList

\* the sleep search(value) goes into with current at index pos, or the end
\* of the search when current is null
SearchFrom(pos, value, rest) ==
    IF pos >= Len(head)
    THEN /\ isAnimating' = FALSE
         /\ tasks' = rest
    ELSE /\ isAnimating' = TRUE
         /\ tasks' = Append(rest,
                IF head[pos + 1] = value
                THEN ListTask("searchFound", pos, value)
                ELSE ListTask("searchWalk", pos, value))

\* search(value) up to its first sleep
search(value) ==
    IF isAnimating \/ head = <<>> THEN UNCHANGED vars
    ELSE /\ Room
         /\ SearchFrom(0, value, tasks)
         /\ UNCHANGED <<head, notList>>

\* search-btn click
SearchClick ==
    /\ page = "linkedList"
    /\ \E value \in Inputs \cup {""} :
          IF value = "" THEN UNCHANGED vars ELSE search(value)

\* search after a sleep(400): current = current.next
SearchWalkResume(i) ==
    /\ tasks[i].kind = "searchWalk"
    /\ SearchFrom(tasks[i].index + 1, tasks[i].sum, Without(i))
    /\ UNCHANGED <<head, notList>>

\* search after its sleep(1000): break; the finally block
SearchFoundResume(i) ==
    /\ tasks[i].kind = "searchFound"
    /\ isAnimating' = FALSE
    /\ tasks' = Without(i)
    /\ UNCHANGED <<head, notList>>

\* a timer of the list page fires, or the awaited promise resumes removeLast
ListTimerFires ==
    /\ page = "linkedList"
    /\ \E i \in 1..Len(tasks) :
          /\ CanFire(i)
          /\ \/ AddFirstResume(i)
             \/ AddLastWalkResume(i)
             \/ AddLastShowResume(i)
             \/ RemoveFirstResume(i)
             \/ RemoveLastOneResume(i)
             \/ RemoveLastWalkResume(i)
             \/ RemoveLastCutResume(i)
             \/ SearchWalkResume(i)
             \/ SearchFoundResume(i)

InitList ==
    /\ page = "linkedList"
    /\ isAnimating = FALSE
    /\ queue = <<>>
    /\ stack = <<>>
    /\ head = <<>>
    /\ dll = EmptyDll
    /\ tree = EmptyTree
    /\ setTable = EmptyTable
    /\ mapTable = EmptyMapTable
    /\ arrayList = EmptyArrayList
    /\ tasks = <<>>
    /\ array = <<>>
    /\ prefixSumArray = NullPrefix
    /\ animationQueue = <<>>
    /\ currentStep = 0
    /\ isPlaying = FALSE
    /\ playPauseBtnText = "Play"
    /\ base = <<>>
    /\ algo = "none"

NextList ==
    \/ AddFirstClick
    \/ AddLastClick
    \/ RemoveFirstClick
    \/ RemoveLastClick
    \/ SearchClick
    \/ ListTimerFires

SpecList == InitList /\ [][NextList]_vars

(* --------------------- the doubly-linked-list page --------------------- *)

\* what the doubly-linked-list page leaves alone
notDll == <<arrayPage, page, queue, stack, head, tree, setTable, mapTable, arrayList>>

\* the objects of the nodes that the list does not hold
FreeIds == {n \in DOMAIN dll.nodes : ~dll.nodes[n].live}

\* the object that `new Node` makes
NewId == CHOOSE n \in FreeIds : \A m \in FreeIds : n <= m

\* addFirst(value) up to its sleep(600)
dllAddFirst(value) ==
    IF isAnimating THEN UNCHANGED vars
    ELSE LET newNode == NewId
             made == [dll.nodes EXCEPT ![newNode] = NewNode(value)]
         IN /\ Room
            /\ FreeIds # {}
            /\ isAnimating' = TRUE
            /\ dll' = IF dll.head # Null
                      THEN [head |-> newNode,
                            tail |-> dll.tail,
                            nodes |-> [made EXCEPT
                                         ![dll.head].previous = newNode,
                                         ![newNode].next = dll.head]]
                      ELSE [head |-> newNode, tail |-> newNode, nodes |-> made]
            /\ tasks' = Append(tasks, ListTask("addFirst", 0, value))
            /\ UNCHANGED notDll

\* add-first-btn click: nothing happens on an empty value field
DllAddFirstClick ==
    /\ page = "doublyLinkedList"
    /\ \E value \in Inputs \cup {""} :
          IF value = "" THEN UNCHANGED vars ELSE dllAddFirst(value)

\* addLast(value) up to its sleep(600)
dllAddLast(value) ==
    IF isAnimating THEN UNCHANGED vars
    ELSE LET newNode == NewId
             made == [dll.nodes EXCEPT ![newNode] = NewNode(value)]
         IN /\ Room
            /\ FreeIds # {}
            /\ isAnimating' = TRUE
            /\ dll' = IF dll.tail # Null
                      THEN [head |-> dll.head,
                            tail |-> newNode,
                            nodes |-> [made EXCEPT
                                         ![dll.tail].next = newNode,
                                         ![newNode].previous = dll.tail]]
                      ELSE [head |-> newNode, tail |-> newNode, nodes |-> made]
            /\ tasks' = Append(tasks, ListTask("addLast", 0, value))
            /\ UNCHANGED notDll

\* add-last-btn click
DllAddLastClick ==
    /\ page = "doublyLinkedList"
    /\ \E value \in Inputs \cup {""} :
          IF value = "" THEN UNCHANGED vars ELSE dllAddLast(value)

\* addFirst and addLast after their sleep; the finally block
DllAddResume(i) ==
    /\ tasks[i].kind \in {"addFirst", "addLast"}
    /\ isAnimating' = FALSE
    /\ tasks' = Without(i)
    /\ UNCHANGED <<dll, notDll>>

\* removeFirst() up to its sleep(600)
dllRemoveFirst ==
    IF isAnimating \/ dll.head = Null THEN UNCHANGED vars
    ELSE /\ Room
         /\ isAnimating' = TRUE
         /\ tasks' = Append(tasks, ListTask("removeFirst", dll.head, Undef))
         /\ UNCHANGED <<dll, notDll>>

DllRemoveFirstClick == page = "doublyLinkedList" /\ dllRemoveFirst

\* removeFirst after its sleep with the line `this.head.previous = null`
\* left out
DllRemoveFirstResumeKeepsPrevious(i) ==
    LET old == dll.head
        newHead == dll.nodes[old].next
        dropped == [dll.nodes EXCEPT ![old] = FreeNode]
    IN /\ tasks[i].kind = "removeFirst"
       /\ dll' = IF newHead # Null
                 THEN [head |-> newHead, tail |-> dll.tail, nodes |-> dropped]
                 ELSE [head |-> Null, tail |-> Null, nodes |-> dropped]
       /\ isAnimating' = FALSE
       /\ tasks' = Without(i)
       /\ UNCHANGED notDll

\* removeFirst after its sleep: the head moves on and its previous is
\* cleared, or the list is empty; the finally block.  The node taken out is
\* held by nothing any more.
DllRemoveFirstResume(i) ==
    LET old == dll.head
        newHead == dll.nodes[old].next
        dropped == [dll.nodes EXCEPT ![old] = FreeNode]
    IN /\ tasks[i].kind = "removeFirst"
       /\ dll' = IF newHead # Null
                 THEN [head |-> newHead,
                       tail |-> dll.tail,
                       nodes |-> [dropped EXCEPT ![newHead].previous = Null]]
                 ELSE [head |-> Null, tail |-> Null, nodes |-> dropped]
       /\ isAnimating' = FALSE
       /\ tasks' = Without(i)
       /\ UNCHANGED notDll

\* removeLast() up to its sleep(600)
dllRemoveLast ==
    IF isAnimating \/ dll.tail = Null THEN UNCHANGED vars
    ELSE /\ Room
         /\ isAnimating' = TRUE
         /\ tasks' = Append(tasks, ListTask("removeLast", dll.tail, Undef))
         /\ UNCHANGED <<dll, notDll>>

DllRemoveLastClick == page = "doublyLinkedList" /\ dllRemoveLast

\* removeLast after its sleep: the tail moves back and its next is cleared,
\* or the list is empty; the finally block
DllRemoveLastResume(i) ==
    LET old == dll.tail
        newTail == dll.nodes[old].previous
        dropped == [dll.nodes EXCEPT ![old] = FreeNode]
    IN /\ tasks[i].kind = "removeLast"
       /\ dll' = IF newTail # Null
                 THEN [head |-> dll.head,
                       tail |-> newTail,
                       nodes |-> [dropped EXCEPT ![newTail].next = Null]]
                 ELSE [head |-> Null, tail |-> Null, nodes |-> dropped]
       /\ isAnimating' = FALSE
       /\ tasks' = Without(i)
       /\ UNCHANGED notDll

\* the sleep search(value) goes into with `current`, or the end of the
\* search when current is null
DllSearchFrom(current, value, rest) ==
    IF current = Null
    THEN /\ isAnimating' = FALSE
         /\ tasks' = rest
    ELSE /\ isAnimating' = TRUE
         /\ tasks' = Append(rest,
                IF dll.nodes[current].value = value
                THEN ListTask("searchFound", current, value)
                ELSE ListTask("searchWalk", current, value))

\* search(value) up to its first sleep
dllSearch(value) ==
    IF isAnimating \/ dll.head = Null THEN UNCHANGED vars
    ELSE /\ Room
         /\ DllSearchFrom(dll.head, value, tasks)
         /\ UNCHANGED <<dll, notDll>>

\* search-btn click
DllSearchClick ==
    /\ page = "doublyLinkedList"
    /\ \E value \in Inputs \cup {""} :
          IF value = "" THEN UNCHANGED vars ELSE dllSearch(value)

\* search after a sleep(400): current = current.next
DllSearchWalkResume(i) ==
    /\ tasks[i].kind = "searchWalk"
    /\ DllSearchFrom(dll.nodes[tasks[i].index].next, tasks[i].sum, Without(i))
    /\ UNCHANGED <<dll, notDll>>

\* search after its sleep(1000): break; the finally block
DllSearchFoundResume(i) ==
    /\ tasks[i].kind = "searchFound"
    /\ isAnimating' = FALSE
    /\ tasks' = Without(i)
    /\ UNCHANGED <<dll, notDll>>

DllTimerFires ==
    /\ page = "doublyLinkedList"
    /\ \E i \in 1..Len(tasks) :
          /\ CanFire(i)
          /\ \/ DllAddResume(i)
             \/ DllRemoveFirstResume(i)
             \/ DllRemoveLastResume(i)
             \/ DllSearchWalkResume(i)
             \/ DllSearchFoundResume(i)

InitDll ==
    /\ page = "doublyLinkedList"
    /\ isAnimating = FALSE
    /\ queue = <<>>
    /\ stack = <<>>
    /\ head = <<>>
    /\ dll = EmptyDll
    /\ tree = EmptyTree
    /\ setTable = EmptyTable
    /\ mapTable = EmptyMapTable
    /\ arrayList = EmptyArrayList
    /\ tasks = <<>>
    /\ array = <<>>
    /\ prefixSumArray = NullPrefix
    /\ animationQueue = <<>>
    /\ currentStep = 0
    /\ isPlaying = FALSE
    /\ playPauseBtnText = "Play"
    /\ base = <<>>
    /\ algo = "none"

NextDll ==
    \/ DllAddFirstClick
    \/ DllAddLastClick
    \/ DllRemoveFirstClick
    \/ DllRemoveLastClick
    \/ DllSearchClick
    \/ DllTimerFires

SpecDll == InitDll /\ [][NextDll]_vars

(* ------------------------ the binary-tree page ------------------------- *)

\* what the binary-tree page leaves alone
notTree == <<arrayPage, page, queue, stack, head, dll, setTable, mapTable, arrayList>>

\* the numbers typed into the value field
TreeValues == 1..MaxTreeValue

TreeFreeIds == {n \in DOMAIN tree.nodes : ~tree.nodes[n].live}

\* the object that `new Node` makes
TreeNewId == CHOOSE n \in TreeFreeIds : \A m \in TreeFreeIds : n <= m

\* the number of nodes of the tree
TreeSize == Cardinality(DOMAIN tree.nodes \ TreeFreeIds)

\* insert(value) up to its first sleep: the new node is the root of an
\* empty tree, else the walk begins at the root
treeInsert(value) ==
    IF isAnimating THEN UNCHANGED vars
    ELSE /\ Room
         /\ TreeFreeIds # {}
         /\ isAnimating' = TRUE
         /\ IF tree.root = Null
            THEN /\ tree' = [root |-> TreeNewId,
                             nodes |-> [tree.nodes EXCEPT
                                          ![TreeNewId] = NewTreeNode(value)]]
                 /\ tasks' = Append(tasks,
                        Task("treeInsertShow", "hold", NoStep, Undef, value))
            ELSE /\ tree' = tree
                 /\ tasks' = Append(tasks,
                        Task("treeInsertWalk", "hold", NoStep, tree.root, value))
         /\ UNCHANGED notTree

\* handleOp for the insert button: parseInt of the field, NaN is refused
TreeInsertClick ==
    /\ page = "binaryTree"
    /\ \E value \in TreeValues \cup {NaN} :
          IF value = NaN THEN UNCHANGED vars ELSE treeInsert(value)

\* insert after a sleep(400) of its walk, where a value equal to current's
\* goes on to the right
TreeInsertWalkResumeTiesRight(i) ==
    LET t == tasks[i]
        value == t.sum
        current == tree.nodes[t.index]
        newNode == TreeNewId
        made == [tree.nodes EXCEPT ![newNode] = NewTreeNode(value)]
        show == Task("treeInsertShow", "hold", NoStep, Undef, value)
        walk(n) == Task("treeInsertWalk", "hold", NoStep, n, value)
    IN /\ t.kind = "treeInsertWalk"
       /\ IF value < current.value
          THEN IF current.left = Null
               THEN /\ tree' = [tree EXCEPT
                                  !.nodes = [made EXCEPT ![t.index].left = newNode]]
                    /\ tasks' = Append(Without(i), show)
               ELSE /\ tree' = tree
                    /\ tasks' = Append(Without(i), walk(current.left))
          ELSE IF current.right = Null
               THEN /\ tree' = [tree EXCEPT
                                  !.nodes = [made EXCEPT ![t.index].right = newNode]]
                    /\ tasks' = Append(Without(i), show)
               ELSE /\ tree' = tree
                    /\ tasks' = Append(Without(i), walk(current.right))
       /\ UNCHANGED <<isAnimating, notTree>>

\* insert after a sleep(400) of its walk, whose duplicate branch returns
\* without `this.isAnimating = false`
TreeInsertWalkResumeStaysBusy(i) ==
    LET t == tasks[i]
        value == t.sum
        current == tree.nodes[t.index]
        newNode == TreeNewId
        made == [tree.nodes EXCEPT ![newNode] = NewTreeNode(value)]
        show == Task("treeInsertShow", "hold", NoStep, Undef, value)
        walk(n) == Task("treeInsertWalk", "hold", NoStep, n, value)
    IN /\ t.kind = "treeInsertWalk"
       /\ IF value < current.value
          THEN IF current.left = Null
               THEN /\ tree' = [tree EXCEPT
                                  !.nodes = [made EXCEPT ![t.index].left = newNode]]
                    /\ tasks' = Append(Without(i), show)
                    /\ UNCHANGED isAnimating
               ELSE /\ tree' = tree
                    /\ tasks' = Append(Without(i), walk(current.left))
                    /\ UNCHANGED isAnimating
          ELSE IF value > current.value
          THEN IF current.right = Null
               THEN /\ tree' = [tree EXCEPT
                                  !.nodes = [made EXCEPT ![t.index].right = newNode]]
                    /\ tasks' = Append(Without(i), show)
                    /\ UNCHANGED isAnimating
               ELSE /\ tree' = tree
                    /\ tasks' = Append(Without(i), walk(current.right))
                    /\ UNCHANGED isAnimating
          ELSE /\ tree' = tree
               /\ tasks' = Without(i)
               /\ UNCHANGED isAnimating
       /\ UNCHANGED notTree

\* insert after a sleep(400) of its walk: the new node is linked under
\* current, or the walk goes down, or the value is already there and insert
\* returns
TreeInsertWalkResume(i) ==
    LET t == tasks[i]
        value == t.sum
        current == tree.nodes[t.index]
        newNode == TreeNewId
        made == [tree.nodes EXCEPT ![newNode] = NewTreeNode(value)]
        show == Task("treeInsertShow", "hold", NoStep, Undef, value)
        walk(n) == Task("treeInsertWalk", "hold", NoStep, n, value)
    IN /\ t.kind = "treeInsertWalk"
       /\ IF value < current.value
          THEN IF current.left = Null
               THEN /\ tree' = [tree EXCEPT
                                  !.nodes = [made EXCEPT ![t.index].left = newNode]]
                    /\ tasks' = Append(Without(i), show)
                    /\ UNCHANGED isAnimating
               ELSE /\ tree' = tree
                    /\ tasks' = Append(Without(i), walk(current.left))
                    /\ UNCHANGED isAnimating
          ELSE IF value > current.value
          THEN IF current.right = Null
               THEN /\ tree' = [tree EXCEPT
                                  !.nodes = [made EXCEPT ![t.index].right = newNode]]
                    /\ tasks' = Append(Without(i), show)
                    /\ UNCHANGED isAnimating
               ELSE /\ tree' = tree
                    /\ tasks' = Append(Without(i), walk(current.right))
                    /\ UNCHANGED isAnimating
          ELSE /\ tree' = tree
               /\ tasks' = Without(i)
               /\ isAnimating' = FALSE
       /\ UNCHANGED notTree

\* insert after its sleep(600)
TreeInsertShowResume(i) ==
    /\ tasks[i].kind = "treeInsertShow"
    /\ isAnimating' = FALSE
    /\ tasks' = Without(i)
    /\ UNCHANGED <<tree, notTree>>

\* search(value) up to its first sleep(500)
treeSearch(value) ==
    IF isAnimating \/ tree.root = Null THEN UNCHANGED vars
    ELSE /\ Room
         /\ isAnimating' = TRUE
         /\ tasks' = Append(tasks,
                Task("treeSearch", "hold", NoStep, tree.root, value))
         /\ UNCHANGED <<tree, notTree>>

\* handleOp for the search button
TreeSearchClick ==
    /\ page = "binaryTree"
    /\ \E value \in TreeValues \cup {NaN} :
          IF value = NaN THEN UNCHANGED vars ELSE treeSearch(value)

\* search after a sleep(500): found, or one level down, or not found
TreeSearchResume(i) ==
    LET t == tasks[i]
        value == t.sum
        current == tree.nodes[t.index]
        below == IF value < current.value THEN current.left ELSE current.right
    IN /\ t.kind = "treeSearch"
       /\ IF current.value = value \/ below = Null
          THEN /\ isAnimating' = FALSE
               /\ tasks' = Without(i)
          ELSE /\ isAnimating' = isAnimating
               /\ tasks' = Append(Without(i),
                      Task("treeSearch", "hold", NoStep, below, value))
       /\ UNCHANGED <<tree, notTree>>

\* delete-btn click: delete(value) only shows a message
TreeDeleteClick == page = "binaryTree" /\ UNCHANGED vars

\* the traversal orders of the four buttons
Orders == {"In-order", "Pre-order", "Post-order", "BFS"}

\* traverse(order) up to the first sleep of its first visit; the task
\* counts the visits that are over
traverse(order) ==
    IF isAnimating \/ tree.root = Null THEN UNCHANGED vars
    ELSE /\ Room
         /\ isAnimating' = TRUE
         /\ tasks' = Append(tasks, Task("traverse", "visiting", NoStep, 0, order))
         /\ UNCHANGED <<tree, notTree>>

TraverseClick == page = "binaryTree" /\ \E order \in Orders : traverse(order)

\* traverse after one of its sleeps: the second half of the visit, the next
\* visit, the sleep(1000) after the last visit, the end
TraverseResume(i) ==
    LET t == tasks[i] IN
    /\ t.kind = "traverse"
    /\ CASE t.pc = "visiting" ->
              /\ tasks' = Append(Without(i),
                     Task("traverse", "visited", NoStep, t.index, t.sum))
              /\ UNCHANGED isAnimating
         [] t.pc = "visited" ->
              /\ tasks' = Append(Without(i),
                     IF t.index + 1 < TreeSize
                     THEN Task("traverse", "visiting", NoStep, t.index + 1, t.sum)
                     ELSE Task("traverse", "end", NoStep, t.index + 1, t.sum))
              /\ UNCHANGED isAnimating
         [] t.pc = "end" ->
              /\ tasks' = Without(i)
              /\ isAnimating' = FALSE
    /\ UNCHANGED <<tree, notTree>>

\* checkBalanced() and findDiameter() up to their first sleep(400); the
\* task counts the sleeps that are over
TreeMeasure(kind) ==
    IF isAnimating \/ tree.root = Null THEN UNCHANGED vars
    ELSE /\ Room
         /\ isAnimating' = TRUE
         /\ tasks' = Append(tasks, Task(kind, "hold", NoStep, 0, Undef))
         /\ UNCHANGED <<tree, notTree>>

CheckBalancedClick == page = "binaryTree" /\ TreeMeasure("checkBalanced")

FindDiameterClick == page = "binaryTree" /\ TreeMeasure("findDiameter")

\* checkBalanced (two sleeps for each node) and findDiameter (one) after a
\* sleep
TreeMeasureResume(i) ==
    LET t == tasks[i]
        sleeps == IF t.kind = "checkBalanced" THEN 2 * TreeSize ELSE TreeSize
    IN /\ t.kind \in {"checkBalanced", "findDiameter"}
       /\ IF t.index + 1 < sleeps
          THEN /\ tasks' = Append(Without(i),
                      Task(t.kind, "hold", NoStep, t.index + 1, Undef))
               /\ UNCHANGED isAnimating
          ELSE /\ tasks' = Without(i)
               /\ isAnimating' = FALSE
       /\ UNCHANGED <<tree, notTree>>

TreeTimerFires ==
    /\ page = "binaryTree"
    /\ \E i \in 1..Len(tasks) :
          /\ CanFire(i)
          /\ \/ TreeInsertWalkResume(i)
             \/ TreeInsertShowResume(i)
             \/ TreeSearchResume(i)
             \/ TraverseResume(i)
             \/ TreeMeasureResume(i)

InitTree ==
    /\ page = "binaryTree"
    /\ isAnimating = FALSE
    /\ queue = <<>>
    /\ stack = <<>>
    /\ head = <<>>
    /\ dll = EmptyDll
    /\ tree = EmptyTree
    /\ setTable = EmptyTable
    /\ mapTable = EmptyMapTable
    /\ arrayList = EmptyArrayList
    /\ tasks = <<>>
    /\ array = <<>>
    /\ prefixSumArray = NullPrefix
    /\ animationQueue = <<>>
    /\ currentStep = 0
    /\ isPlaying = FALSE
    /\ playPauseBtnText = "Play"
    /\ base = <<>>
    /\ algo = "none"

NextTree ==
    \/ TreeInsertClick
    \/ TreeSearchClick
    \/ TreeDeleteClick
    \/ TraverseClick
    \/ CheckBalancedClick
    \/ FindDiameterClick
    \/ TreeTimerFires

SpecTree == InitTree /\ [][NextTree]_vars

\* setTimeout callbacks are always run in the end
SpecTreeFair == SpecTree /\ WF_vars(TreeTimerFires)

(* -------------------------- the hash-set page -------------------------- *)

\* what the hash-set page leaves alone
notHashSet == <<arrayPage, page, queue, stack, head, dll, tree, mapTable, arrayList>>

\* the texts typed into a field, as their character codes: "a", "b" and
\* "ab"; <<>> is the empty field
Texts == {<<97>>, <<98>>, <<97, 98>>}

\* the loop of hash(key)
RECURSIVE HashLoop(_, _, _)
HashLoop(key, i, h) ==
    IF ~(i < Len(key)) THEN h
    ELSE HashLoop(key, i + 1, (h + key[i + 1] * (i + 1)) % HashSize)

hash(key) == HashLoop(key, 0, 0)

\* a suspended operation of the hash set or of the hash map: pc is the
\* sleep it sits in, pos the place of `current` in the chain (from 0)
HashTask(kind, pc, pos, value) == Task(kind, pc, NoStep, pos, value)

\* add, remove and contains up to their first sleep(500)
SetBegin(kind, value) ==
    IF value = <<>> \/ isAnimating THEN UNCHANGED vars
    ELSE /\ Room
         /\ isAnimating' = TRUE
         /\ tasks' = Append(tasks, HashTask(kind, "hash", 0, value))
         /\ UNCHANGED <<setTable, notHashSet>>

SetAddClick ==
    page = "hashSet" /\ \E value \in Texts \cup {<<>>} : SetBegin("setAdd", value)

SetRemoveClick ==
    page = "hashSet" /\ \E value \in Texts \cup {<<>>} : SetBegin("setRemove", value)

SetContainsClick ==
    page = "hashSet" /\ \E value \in Texts \cup {<<>>} : SetBegin("setContains", value)

\* after the sleep(500) that follows the hashing: the sleep(800) on the
\* bucket
SetHashResume(i) ==
    /\ tasks[i].kind \in {"setAdd", "setRemove", "setContains"}
    /\ tasks[i].pc = "hash"
    /\ tasks' = Append(Without(i),
                       HashTask(tasks[i].kind, "bucket", 0, tasks[i].sum))
    /\ UNCHANGED <<setTable, isAnimating, notHashSet>>

\* the chain loop with `current` at place pos: its sleep(500), or what
\* follows the loop when current is null where a duplicate is not looked
\* for
SetLoopBlind(kind, value, pos, rest) ==
    LET index == hash(value) IN
    IF kind # "setAdd" /\ pos < Len(setTable[index])
    THEN /\ tasks' = Append(rest, HashTask(kind, "walk", pos, value))
         /\ UNCHANGED <<setTable, isAnimating>>
    ELSE IF kind = "setAdd"
    THEN /\ setTable' = [setTable EXCEPT ![index] = <<value>> \o @]
         /\ tasks' = Append(rest, HashTask(kind, "show", pos, value))
         /\ UNCHANGED isAnimating
    ELSE /\ tasks' = rest
         /\ isAnimating' = FALSE
         /\ UNCHANGED setTable

\* the chain loop with `current` at place pos: its sleep(500), or what
\* follows the loop when current is null: add links the new node at the
\* head of the chain, remove and contains end
SetLoop(kind, value, pos, rest) ==
    LET index == hash(value) IN
    IF pos < Len(setTable[index])
    THEN /\ tasks' = Append(rest, HashTask(kind, "walk", pos, value))
         /\ UNCHANGED <<setTable, isAnimating>>
    ELSE IF kind = "setAdd"
    THEN /\ setTable' = [setTable EXCEPT ![index] = <<value>> \o @]
         /\ tasks' = Append(rest, HashTask(kind, "show", pos, value))
         /\ UNCHANGED isAnimating
    ELSE /\ tasks' = rest
         /\ isAnimating' = FALSE
         /\ UNCHANGED setTable

\* after the sleep(800) on the bucket: current = this.table[index]
SetBucketResume(i) ==
    /\ tasks[i].kind \in {"setAdd", "setRemove", "setContains"}
    /\ tasks[i].pc = "bucket"
    /\ SetLoop(tasks[i].kind, tasks[i].sum, 0, Without(i))
    /\ UNCHANGED notHashSet

\* after a sleep(500) of the chain loop: the value is at current (add and
\* remove go into a sleep(800), contains ends), or current = current.next
SetWalkResume(i) ==
    LET t == tasks[i]
        chain == setTable[hash(t.sum)]
    IN /\ t.kind \in {"setAdd", "setRemove", "setContains"}
       /\ t.pc = "walk"
       /\ IF chain[t.index + 1] = t.sum
          THEN IF t.kind = "setContains"
               THEN /\ tasks' = Without(i)
                    /\ isAnimating' = FALSE
                    /\ UNCHANGED setTable
               ELSE /\ tasks' = Append(Without(i),
                           HashTask(t.kind, "found", t.index, t.sum))
                    /\ UNCHANGED <<setTable, isAnimating>>
          ELSE SetLoop(t.kind, t.sum, t.index + 1, Without(i))
       /\ UNCHANGED notHashSet

\* after the sleep(800) on the node found: add ends, remove takes the node
\* out of the chain and ends
SetFoundResume(i) ==
    LET t == tasks[i]
        index == hash(t.sum)
        chain == setTable[index]
    IN /\ t.kind \in {"setAdd", "setRemove"}
       /\ t.pc = "found"
       /\ setTable' = IF t.kind = "setRemove"
                      THEN [setTable EXCEPT ![index] =
                              SubSeq(chain, 1, t.index)
                                \o SubSeq(chain, t.index + 2, Len(chain))]
                      ELSE setTable
       /\ isAnimating' = FALSE
       /\ tasks' = Without(i)
       /\ UNCHANGED notHashSet

\* add after its last sleep(800)
SetShowResume(i) ==
    /\ tasks[i].kind = "setAdd"
    /\ tasks[i].pc = "show"
    /\ isAnimating' = FALSE
    /\ tasks' = Without(i)
    /\ UNCHANGED <<setTable, notHashSet>>

\* clear()
setClear ==
    IF isAnimating THEN UNCHANGED vars
    ELSE /\ setTable' = EmptyTable
         /\ UNCHANGED <<isAnimating, tasks, notHashSet>>

SetClearClick == page = "hashSet" /\ setClear

SetTimerFires ==
    /\ page = "hashSet"
    /\ \E i \in 1..Len(tasks) :
          /\ CanFire(i)
          /\ \/ SetHashResume(i)
             \/ SetBucketResume(i)
             \/ SetWalkResume(i)
             \/ SetFoundResume(i)
             \/ SetShowResume(i)

InitHashSet ==
    /\ page = "hashSet"
    /\ isAnimating = FALSE
    /\ queue = <<>>
    /\ stack = <<>>
    /\ head = <<>>
    /\ dll = EmptyDll
    /\ tree = EmptyTree
    /\ setTable = EmptyTable
    /\ mapTable = EmptyMapTable
    /\ arrayList = EmptyArrayList
    /\ tasks = <<>>
    /\ array = <<>>
    /\ prefixSumArray = NullPrefix
    /\ animationQueue = <<>>
    /\ currentStep = 0
    /\ isPlaying = FALSE
    /\ playPauseBtnText = "Play"
    /\ base = <<>>
    /\ algo = "none"

NextHashSet ==
    \/ SetAddClick
    \/ SetRemoveClick
    \/ SetContainsClick
    \/ SetClearClick
    \/ SetTimerFires

SpecHashSet == InitHashSet /\ [][NextHashSet]_vars

\* setTimeout callbacks are always run in the end
SpecHashSetFair == SpecHashSet /\ WF_vars(SetTimerFires)

(* -------------------------- the hash-map page -------------------------- *)

\* what the hash-map page leaves alone
notHashMap == <<arrayPage, page, queue, stack, head, dll, tree, setTable, arrayList>>

\* the texts typed into the value field of the hash map: "x" and "y"
MapValues == {<<120>>, <<121>>}

\* the keys of a chain, in its order
ChainKeys(chain) == [k \in 1..Len(chain) |-> chain[k].key]

\* set, get and delete up to their first sleep(500)
MapBegin(kind, key, value) ==
    /\ Room
    /\ isAnimating' = TRUE
    /\ tasks' = Append(tasks,
           HashTask(kind, "hash", 0, [key |-> key, value |-> value]))
    /\ UNCHANGED <<mapTable, notHashMap>>

\* set-btn click: set(key, value)
MapSetClick ==
    /\ page = "hashMap"
    /\ \E key \in Texts \cup {<<>>} : \E value \in MapValues \cup {<<>>} :
          IF key = <<>> \/ value = <<>> \/ isAnimating THEN UNCHANGED vars
          ELSE MapBegin("mapSet", key, value)

\* get-btn click: get(key)
MapGetClick ==
    /\ page = "hashMap"
    /\ \E key \in Texts \cup {<<>>} :
          IF key = <<>> \/ isAnimating THEN UNCHANGED vars
          ELSE MapBegin("mapGet", key, <<>>)

\* delete-btn click: delete(key)
MapDeleteClick ==
    /\ page = "hashMap"
    /\ \E key \in Texts \cup {<<>>} :
          IF key = <<>> \/ isAnimating THEN UNCHANGED vars
          ELSE MapBegin("mapDelete", key, <<>>)

\* after the sleep(500) that follows the hashing: the sleep(800) on the
\* bucket
MapHashResume(i) ==
    /\ tasks[i].kind \in {"mapSet", "mapGet", "mapDelete"}
    /\ tasks[i].pc = "hash"
    /\ tasks' = Append(Without(i),
                       HashTask(tasks[i].kind, "bucket", 0, tasks[i].sum))
    /\ UNCHANGED <<mapTable, isAnimating, notHashMap>>

\* the chain loop of the hash map where set links the new node at the head
\* of the chain
MapLoopAtHead(kind, entry, pos, rest) ==
    LET index == hash(entry.key) IN
    IF pos < Len(mapTable[index])
    THEN /\ tasks' = Append(rest, HashTask(kind, "walk", pos, entry))
         /\ UNCHANGED <<mapTable, isAnimating>>
    ELSE IF kind = "mapSet"
    THEN /\ mapTable' = [mapTable EXCEPT ![index] = <<entry>> \o @]
         /\ tasks' = Append(rest, HashTask(kind, "show", pos, entry))
         /\ UNCHANGED isAnimating
    ELSE /\ tasks' = rest
         /\ isAnimating' = FALSE
         /\ UNCHANGED mapTable

\* the chain loop with `current` at place pos: its sleep(500), or what
\* follows the loop when current is null: set links the new node behind
\* `previous`, the last node, or into the empty bucket; get and delete end
MapLoop(kind, entry, pos, rest) ==
    LET index == hash(entry.key) IN
    IF pos < Len(mapTable[index])
    THEN /\ tasks' = Append(rest, HashTask(kind, "walk", pos, entry))
         /\ UNCHANGED <<mapTable, isAnimating>>
    ELSE IF kind = "mapSet"
    THEN /\ mapTable' = [mapTable EXCEPT ![index] = Append(@, entry)]
         /\ tasks' = Append(rest, HashTask(kind, "show", pos, entry))
         /\ UNCHANGED isAnimating
    ELSE /\ tasks' = rest
         /\ isAnimating' = FALSE
         /\ UNCHANGED mapTable

\* after the sleep(800) on the bucket: current = this.table[index]
MapBucketResume(i) ==
    /\ tasks[i].kind \in {"mapSet", "mapGet", "mapDelete"}
    /\ tasks[i].pc = "bucket"
    /\ MapLoop(tasks[i].kind, tasks[i].sum, 0, Without(i))
    /\ UNCHANGED notHashMap

\* after a sleep(500) of the chain loop: the key is at current (set writes
\* the value and goes into a sleep(800), delete goes into a sleep(800), get
\* ends), or current = current.next
MapWalkResume(i) ==
    LET t == tasks[i]
        index == hash(t.sum.key)
        chain == mapTable[index]
    IN /\ t.kind \in {"mapSet", "mapGet", "mapDelete"}
       /\ t.pc = "walk"
       /\ IF chain[t.index + 1].key = t.sum.key
          THEN CASE t.kind = "mapGet" ->
                      /\ tasks' = Without(i)
                      /\ isAnimating' = FALSE
                      /\ UNCHANGED mapTable
                 [] t.kind = "mapSet" ->
                      /\ mapTable' = [mapTable EXCEPT
                                        ![index][t.index + 1].value = t.sum.value]
                      /\ tasks' = Append(Without(i),
                             HashTask(t.kind, "found", t.index, t.sum))
                      /\ UNCHANGED isAnimating
                 [] t.kind = "mapDelete" ->
                      /\ tasks' = Append(Without(i),
                             HashTask(t.kind, "found", t.index, t.sum))
                      /\ UNCHANGED <<mapTable, isAnimating>>
          ELSE MapLoop(t.kind, t.sum, t.index + 1, Without(i))
       /\ UNCHANGED notHashMap

\* after the sleep(800) on the node found: set ends, delete takes the node
\* out of the chain and ends
MapFoundResume(i) ==
    LET t == tasks[i]
        index == hash(t.sum.key)
        chain == mapTable[index]
    IN /\ t.kind \in {"mapSet", "mapDelete"}
       /\ t.pc = "found"
       /\ mapTable' = IF t.kind = "mapDelete"
                      THEN [mapTable EXCEPT ![index] =
                              SubSeq(chain, 1, t.index)
                                \o SubSeq(chain, t.index + 2, Len(chain))]
                      ELSE mapTable
       /\ isAnimating' = FALSE
       /\ tasks' = Without(i)
       /\ UNCHANGED notHashMap

\* set after its last sleep(800)
MapShowResume(i) ==
    /\ tasks[i].kind = "mapSet"
    /\ tasks[i].pc = "show"
    /\ isAnimating' = FALSE
    /\ tasks' = Without(i)
    /\ UNCHANGED <<mapTable, notHashMap>>

\* clear()
mapClear ==
    IF isAnimating THEN UNCHANGED vars
    ELSE /\ mapTable' = EmptyMapTable
         /\ UNCHANGED <<isAnimating, tasks, notHashMap>>

MapClearClick == page = "hashMap" /\ mapClear

MapTimerFires ==
    /\ page = "hashMap"
    /\ \E i \in 1..Len(tasks) :
          /\ CanFire(i)
          /\ \/ MapHashResume(i)
             \/ MapBucketResume(i)
             \/ MapWalkResume(i)
             \/ MapFoundResume(i)
             \/ MapShowResume(i)

InitHashMap ==
    /\ page = "hashMap"
    /\ isAnimating = FALSE
    /\ queue = <<>>
    /\ stack = <<>>
    /\ head = <<>>
    /\ dll = EmptyDll
    /\ tree = EmptyTree
    /\ setTable = EmptyTable
    /\ mapTable = EmptyMapTable
    /\ arrayList = EmptyArrayList
    /\ tasks = <<>>
    /\ array = <<>>
    /\ prefixSumArray = NullPrefix
    /\ animationQueue = <<>>
    /\ currentStep = 0
    /\ isPlaying = FALSE
    /\ playPauseBtnText = "Play"
    /\ base = <<>>
    /\ algo = "none"

NextHashMap ==
    \/ MapSetClick
    \/ MapGetClick
    \/ MapDeleteClick
    \/ MapClearClick
    \/ MapTimerFires

SpecHashMap == InitHashMap /\ [][NextHashMap]_vars

(* ------------------------- the array-list page ------------------------- *)

\* what the array-list page leaves alone
notArrayList ==
    <<arrayPage, page, queue, stack, head, dll, tree, setTable, mapTable>>

\* the texts typed into the value field of the array list: "2" and "10"
ListTexts == {<<50>>, <<49, 48>>}

\* an array slot never written: undefined
HoleSlot == [isNull |-> FALSE, text |-> <<>>]

\* elements[i] for a 0-based index
SlotAt(elements, i) ==
    IF i >= 0 /\ i < Len(elements) THEN elements[i + 1] ELSE HoleSlot

\* elements[i] = v for a 0-based index: a write past the end grows the array
SlotPut(elements, i, v) ==
    IF i < Len(elements) THEN [elements EXCEPT ![i + 1] = v]
    ELSE elements \o [k \in 1..(i - Len(elements)) |-> HoleSlot] \o <<v>>

\* the leading digits of a text from position k on, as a number
RECURSIVE ParseDigits(_, _, _)
ParseDigits(text, k, n) ==
    IF k > Len(text) \/ text[k] < 48 \/ text[k] > 57 THEN n
    ELSE ParseDigits(text, k + 1, 10 * n + (text[k] - 48))

\* parseInt of a slot: NaN for null, undefined and a text without a
\* leading digit
parseInt(slot) ==
    IF slot.isNull \/ slot.text = <<>> THEN NaN
    ELSE IF slot.text[1] < 48 \/ slot.text[1] > 57 THEN NaN
    ELSE ParseDigits(slot.text, 1, 0)

\* a suspended operation of the array list: pc is the sleep it sits in, i
\* its loop counter, ctx its other locals and arguments
ListOpTask(kind, pc, i, ctx) == Task(kind, pc, NoStep, i, ctx)

\* the arguments and locals of a request; `before` notes the elements the
\* list held when the request was accepted and `grown` that it went
\* through resize (history)
Request(caller, index, value) ==
    [caller |-> caller, index |-> index, value |-> value, grown |-> FALSE,
     newElements |-> <<>>,
     before |-> SubSeq(arrayList.elements, 1, arrayList.size)]

\* resize() up to its sleep(500), called by add or addAtIndex
resize(ctx) ==
    /\ isAnimating' = TRUE
    /\ tasks' = Append(tasks, ListOpTask("resize", "start", 0, ctx))
    /\ UNCHANGED arrayList

\* add after `this.isAnimating = true`: the value goes into slot `size`; up
\* to the sleep(600)
AddPlace(ctx, rest) ==
    /\ arrayList' = [arrayList EXCEPT
                       !.elements = SlotPut(@, arrayList.size, Slot(ctx.value)),
                       !.size = @ + 1]
    /\ tasks' = Append(rest, ListOpTask("listShow", "hold", 0, ctx))

\* the shifting loop of addAtIndex with its counter at i: one slot is moved
\* up, then the sleep(200); after the loop the value goes into its slot, up
\* to the sleep(600)
AddAtLoop(ctx, i, rest) ==
    IF i > ctx.index
    THEN /\ arrayList' = [arrayList EXCEPT
                            !.elements = SlotPut(@, i, SlotAt(@, i - 1))]
         /\ tasks' = Append(rest, ListOpTask("listShift", "hold", i, ctx))
    ELSE /\ arrayList' = [arrayList EXCEPT
                            !.elements = SlotPut(@, ctx.index, Slot(ctx.value)),
                            !.size = @ + 1]
         /\ tasks' = Append(rest, ListOpTask("listShow", "hold", 0, ctx))

\* add(value) up to its first sleep; the specification allows `limit`
\* elements
listAdd(value, limit) ==
    IF isAnimating \/ value = <<>> THEN UNCHANGED vars
    ELSE IF arrayList.size = ListMaxCapacity THEN UNCHANGED vars
    ELSE /\ Room
         /\ arrayList.size < limit
         /\ IF arrayList.size = arrayList.capacity
            THEN resize(Request("add", arrayList.size, value))
            ELSE /\ isAnimating' = TRUE
                 /\ AddPlace(Request("add", arrayList.size, value), tasks)
         /\ UNCHANGED notArrayList

\* add-btn click
ListAddClick(values, limit) ==
    /\ page = "arrayList"
    /\ \E value \in values \cup {<<>>} : listAdd(value, limit)

\* addAtIndex(index, value) up to its first sleep
addAtIndex(index, value, limit) ==
    IF isAnimating \/ value = <<>> \/ index < 0 \/ index > arrayList.size
    THEN UNCHANGED vars
    ELSE IF arrayList.size = ListMaxCapacity THEN UNCHANGED vars
    ELSE /\ Room
         /\ arrayList.size < limit
         /\ IF arrayList.size = arrayList.capacity
            THEN resize(Request("addAtIndex", index, value))
            ELSE /\ isAnimating' = TRUE
                 /\ AddAtLoop(Request("addAtIndex", index, value),
                              arrayList.size, tasks)
         /\ UNCHANGED notArrayList

\* the indices typed into the index field: parseInt gives a number or NaN
ListIndices == (-1..(arrayList.size + 1)) \cup {NaN}

\* handleIndexOp for the add-at button
AddAtIndexClick(values, limit) ==
    /\ page = "arrayList"
    /\ \E index \in ListIndices : \E value \in values \cup {<<>>} :
          IF index = NaN THEN UNCHANGED vars
          ELSE addAtIndex(index, value, limit)

\* resize after its sleep(500): the new array, then the copying loop up to
\* its first sleep(250)
ResizeStartResume(i) ==
    LET t == tasks[i]
        doubled == arrayList.capacity * 2
        newCapacity == IF doubled > ListMaxCapacity THEN ListMaxCapacity
                       ELSE doubled
        newElements == NullSlots(newCapacity)
    IN /\ t.kind = "resize"
       /\ t.pc = "start"
       /\ IF 0 < arrayList.size
          THEN /\ tasks' = Append(Without(i),
                      ListOpTask("resize", "copy", 0,
                          [t.sum EXCEPT !.newElements =
                              SlotPut(newElements, 0,
                                      SlotAt(arrayList.elements, 0))]))
               /\ UNCHANGED arrayList
          ELSE /\ arrayList' = [arrayList EXCEPT !.elements = newElements,
                                                 !.capacity = newCapacity]
               /\ tasks' = Append(Without(i),
                      ListOpTask("resize", "done", 0, t.sum))
       /\ UNCHANGED <<isAnimating, notArrayList>>

\* resize after a sleep(250) of its copying loop: the next element, or the
\* new array and capacity are installed, up to the sleep(800)
ResizeCopyResume(i) ==
    LET t == tasks[i]
        k == t.index + 1
    IN /\ t.kind = "resize"
       /\ t.pc = "copy"
       /\ IF k < arrayList.size
          THEN /\ tasks' = Append(Without(i),
                      ListOpTask("resize", "copy", k,
                          [t.sum EXCEPT !.newElements =
                              SlotPut(@, k, SlotAt(arrayList.elements, k))]))
               /\ UNCHANGED arrayList
          ELSE /\ arrayList' = [arrayList EXCEPT
                                  !.elements = t.sum.newElements,
                                  !.capacity = Len(t.sum.newElements)]
               /\ tasks' = Append(Without(i),
                      ListOpTask("resize", "done", k,
                          [t.sum EXCEPT !.newElements = <<>>]))
       /\ UNCHANGED <<isAnimating, notArrayList>>

\* resize after its sleep(800) where the caller goes on without
\* `this.isAnimating = true`
ResizeDoneResumeUngated(i) ==
    LET t == tasks[i]
        ctx == [t.sum EXCEPT !.grown = TRUE]
    IN /\ t.kind = "resize"
       /\ t.pc = "done"
       /\ isAnimating' = FALSE
       /\ IF ctx.caller = "add"
          THEN AddPlace(ctx, Without(i))
          ELSE AddAtLoop(ctx, arrayList.size, Without(i))
       /\ UNCHANGED notArrayList

\* resize after its sleep(800): isAnimating = false and the end of resize;
\* the caller, which awaited it, runs on at once (its continuation is a
\* microtask: no timer or click comes before it) and sets isAnimating = true
ResizeDoneResume(i) ==
    LET t == tasks[i]
        ctx == [t.sum EXCEPT !.grown = TRUE]
    IN /\ t.kind = "resize"
       /\ t.pc = "done"
       /\ isAnimating' = TRUE
       /\ IF ctx.caller = "add"
          THEN AddPlace(ctx, Without(i))
          ELSE AddAtLoop(ctx, arrayList.size, Without(i))
       /\ UNCHANGED notArrayList

\* addAtIndex after a sleep(200) of its shifting loop: i--
ListShiftResume(i) ==
    /\ tasks[i].kind = "listShift"
    /\ AddAtLoop(tasks[i].sum, tasks[i].index - 1, Without(i))
    /\ UNCHANGED <<isAnimating, notArrayList>>

\* add and addAtIndex after their sleep(600)
ListShowResume(i) ==
    /\ tasks[i].kind = "listShow"
    /\ isAnimating' = FALSE
    /\ tasks' = Without(i)
    /\ UNCHANGED <<arrayList, notArrayList>>

\* remove(index) up to its sleep(400)
listRemove(index) ==
    IF isAnimating \/ index < 0 \/ index >= arrayList.size THEN UNCHANGED vars
    ELSE /\ Room
         /\ isAnimating' = TRUE
         /\ tasks' = Append(tasks,
                ListOpTask("listRemove", "hold", 0,
                           Request("remove", index, <<>>)))
         /\ UNCHANGED <<arrayList, notArrayList>>

\* handleIndexOp for the remove button
ListRemoveClick ==
    /\ page = "arrayList"
    /\ \E index \in ListIndices :
          IF index = NaN THEN UNCHANGED vars ELSE listRemove(index)

\* the closing loop of remove where the line
\* `this.elements[this.size-1] = null` after the loop is left out
RemoveLoopKeepsLast(elements, ctx, i, rest) ==
    IF i < arrayList.size - 1
    THEN /\ arrayList' = [arrayList EXCEPT
                            !.elements = SlotPut(elements, i,
                                                 SlotAt(elements, i + 1))]
         /\ tasks' = Append(rest, ListOpTask("listClose", "hold", i, ctx))
         /\ UNCHANGED isAnimating
    ELSE /\ arrayList' = [arrayList EXCEPT !.elements = elements,
                                           !.size = @ - 1]
         /\ tasks' = rest
         /\ isAnimating' = FALSE

\* the closing loop of remove over `elements` with its counter at i: one
\* slot is moved down, then the sleep(200); after the loop the last slot is
\* nulled, size decremented and remove ends
RemoveLoop(elements, ctx, i, rest) ==
    IF i < arrayList.size - 1
    THEN /\ arrayList' = [arrayList EXCEPT
                            !.elements = SlotPut(elements, i,
                                                 SlotAt(elements, i + 1))]
         /\ tasks' = Append(rest, ListOpTask("listClose", "hold", i, ctx))
         /\ UNCHANGED isAnimating
    ELSE /\ arrayList' = [arrayList EXCEPT
                            !.elements = SlotPut(elements, arrayList.size - 1,
                                                 NullSlot),
                            !.size = @ - 1]
         /\ tasks' = rest
         /\ isAnimating' = FALSE

\* remove after its sleep(400): the slot is nulled, then the closing loop
ListRemoveResume(i) ==
    /\ tasks[i].kind = "listRemove"
    /\ RemoveLoop(SlotPut(arrayList.elements, tasks[i].sum.index, NullSlot),
                  tasks[i].sum, tasks[i].sum.index, Without(i))
    /\ UNCHANGED notArrayList

\* remove after a sleep(200) of its closing loop: i++
ListCloseResume(i) ==
    /\ tasks[i].kind = "listClose"
    /\ RemoveLoop(arrayList.elements, tasks[i].sum, tasks[i].index + 1,
                  Without(i))
    /\ UNCHANGED notArrayList

\* get(index) up to its sleep(1000)
listGet(index) ==
    IF isAnimating \/ index < 0 \/ index >= arrayList.size THEN UNCHANGED vars
    ELSE /\ Room
         /\ isAnimating' = TRUE
         /\ tasks' = Append(tasks,
                ListOpTask("listGet", "hold", 0, Request("get", index, <<>>)))
         /\ UNCHANGED <<arrayList, notArrayList>>

\* handleIndexOp for the get button
ListGetClick ==
    /\ page = "arrayList"
    /\ \E index \in ListIndices :
          IF index = NaN THEN UNCHANGED vars ELSE listGet(index)

\* set(index, value) up to its sleep(1000)
listSet(index, value) ==
    IF isAnimating \/ value = <<>> \/ index < 0 \/ index >= arrayList.size
    THEN UNCHANGED vars
    ELSE /\ Room
         /\ isAnimating' = TRUE
         /\ arrayList' = [arrayList EXCEPT
                            !.elements = SlotPut(@, index, Slot(value))]
         /\ tasks' = Append(tasks,
                ListOpTask("listSet", "hold", 0, Request("set", index, value)))
         /\ UNCHANGED notArrayList

\* handleIndexOp for the set button
ListSetClick(values) ==
    /\ page = "arrayList"
    /\ \E index \in ListIndices : \E value \in values \cup {<<>>} :
          IF index = NaN THEN UNCHANGED vars ELSE listSet(index, value)

\* get and set after their sleep(1000)
ListLookResume(i) ==
    /\ tasks[i].kind \in {"listGet", "listSet"}
    /\ isAnimating' = FALSE
    /\ tasks' = Without(i)
    /\ UNCHANGED <<arrayList, notArrayList>>

\* clear()
listClear ==
    IF isAnimating THEN UNCHANGED vars
    ELSE /\ arrayList' = [arrayList EXCEPT
                            !.elements = NullSlots(arrayList.capacity),
                            !.size = 0]
         /\ UNCHANGED <<isAnimating, tasks, notArrayList>>

\* clear-btn click
ListClearClick == page = "arrayList" /\ listClear

\* the loops of sort going on with their counters at i and j: the
\* sleep(300) before the next comparison, or the end of sort
SortLoop(i, j, rest) ==
    IF j < arrayList.size - i - 1
    THEN /\ tasks' = Append(rest, ListOpTask("listSort", "compare", i, j))
         /\ UNCHANGED isAnimating
    ELSE IF i + 1 < arrayList.size - 1
    THEN /\ tasks' = Append(rest, ListOpTask("listSort", "compare", i + 1, 0))
         /\ UNCHANGED isAnimating
    ELSE /\ tasks' = rest
         /\ isAnimating' = FALSE

\* sort() up to its first sleep(300)
listSort ==
    IF isAnimating \/ arrayList.size <= 1 THEN UNCHANGED vars
    ELSE /\ Room
         /\ isAnimating' = TRUE
         /\ tasks' = Append(tasks, ListOpTask("listSort", "compare", 0, 0))
         /\ UNCHANGED <<arrayList, notArrayList>>

\* sort-btn click
ListSortClick == page = "arrayList" /\ listSort

\* sort after one of its sleeps: the comparison, the swap, the next pair
ListSortResume(k) ==
    LET t == tasks[k]
        i == t.index
        j == t.sum
        e == arrayList.elements
    IN /\ t.kind = "listSort"
       /\ CASE t.pc = "compare" ->
                 IF Gt(parseInt(SlotAt(e, j)), parseInt(SlotAt(e, j + 1)))
                 THEN /\ tasks' = Append(Without(k),
                             ListOpTask("listSort", "swap", i, j))
                      /\ UNCHANGED <<arrayList, isAnimating>>
                 ELSE /\ SortLoop(i, j + 1, Without(k))
                      /\ UNCHANGED arrayList
            [] t.pc = "swap" ->
                 /\ arrayList' = [arrayList EXCEPT
                        !.elements = SlotPut(SlotPut(@, j, SlotAt(e, j + 1)),
                                             j + 1, SlotAt(e, j))]
                 /\ tasks' = Append(Without(k),
                        ListOpTask("listSort", "swapped", i, j))
                 /\ UNCHANGED isAnimating
            [] OTHER ->
                 /\ SortLoop(i, j + 1, Without(k))
                 /\ UNCHANGED arrayList
       /\ UNCHANGED notArrayList

\* reverse() up to its first sleep(400)
listReverse ==
    IF isAnimating \/ arrayList.size <= 1 THEN UNCHANGED vars
    ELSE /\ Room
         /\ isAnimating' = TRUE
         /\ tasks' = Append(tasks, ListOpTask("listReverse", "pick", 0, Undef))
         /\ UNCHANGED <<arrayList, notArrayList>>

\* reverse-btn click
ListReverseClick == page = "arrayList" /\ listReverse

\* reverse after one of its sleeps: the swap of left and right, or left++,
\* right-- and the next round or the end
ListReverseResume(k) ==
    LET t == tasks[k]
        left == t.index
        right == arrayList.size - 1 - left
        e == arrayList.elements
    IN /\ t.kind = "listReverse"
       /\ IF t.pc = "pick"
          THEN /\ arrayList' = [arrayList EXCEPT
                      !.elements = SlotPut(SlotPut(@, left, SlotAt(e, right)),
                                           right, SlotAt(e, left))]
               /\ tasks' = Append(Without(k),
                      ListOpTask("listReverse", "swapped", left, Undef))
               /\ UNCHANGED isAnimating
          ELSE IF left + 1 < right - 1
          THEN /\ tasks' = Append(Without(k),
                      ListOpTask("listReverse", "pick", left + 1, Undef))
               /\ UNCHANGED <<arrayList, isAnimating>>
          ELSE /\ tasks' = Without(k)
               /\ isAnimating' = FALSE
               /\ UNCHANGED arrayList
       /\ UNCHANGED notArrayList

\* a timer of the array-list page fires
ListOpTimerFires ==
    /\ page = "arrayList"
    /\ \E i \in 1..Len(tasks) :
          /\ CanFire(i)
          /\ \/ ResizeStartResume(i)
             \/ ResizeCopyResume(i)
             \/ ResizeDoneResume(i)
             \/ ListShiftResume(i)
             \/ ListShowResume(i)
             \/ ListRemoveResume(i)
             \/ ListCloseResume(i)
             \/ ListLookResume(i)
             \/ ListSortResume(i)
             \/ ListReverseResume(i)

InitArrayList ==
    /\ page = "arrayList"
    /\ isAnimating = FALSE
    /\ queue = <<>>
    /\ stack = <<>>
    /\ head = <<>>
    /\ dll = EmptyDll
    /\ tree = EmptyTree
    /\ setTable = EmptyTable
    /\ mapTable = EmptyMapTable
    /\ arrayList = EmptyArrayList
    /\ tasks = <<>>
    /\ array = <<>>
    /\ prefixSumArray = NullPrefix
    /\ animationQueue = <<>>
    /\ currentStep = 0
    /\ isPlaying = FALSE
    /\ playPauseBtnText = "Play"
    /\ base = <<>>
    /\ algo = "none"

\* lists of the two texts, of at most MaxElements elements
NextArrayList ==
    \/ ListAddClick(ListTexts, MaxElements)
    \/ AddAtIndexClick(ListTexts, MaxElements)
    \/ ListRemoveClick
    \/ ListGetClick
    \/ ListSetClick(ListTexts)
    \/ ListClearClick
    \/ ListSortClick
    \/ ListReverseClick
    \/ ListOpTimerFires

SpecArrayList == InitArrayList /\ [][NextArrayList]_vars

\* lists of one text, filled up to the 16 elements which the code allows
NextArrayListFull ==
    \/ ListAddClick({<<50>>}, ListMaxCapacity + 1)
    \/ AddAtIndexClick({<<50>>}, ListMaxCapacity + 1)
    \/ ListRemoveClick
    \/ ListGetClick
    \/ ListSetClick({<<50>>})
    \/ ListClearClick
    \/ ListSortClick
    \/ ListReverseClick
    \/ ListOpTimerFires

SpecArrayListFull == InitArrayList /\ [][NextArrayListFull]_vars

(* ------- the linked-list, binary-tree or hash-set page is open --------- *)

\* one of the three pages has been loaded
InitAnyPage == InitList \/ InitTree \/ InitHashSet

NextAnyPage == NextList \/ NextTree \/ NextHashSet

\* setTimeout callbacks and promise reactions are always run in the end
SpecAnyPageFair ==
    /\ InitAnyPage
    /\ [][NextAnyPage]_vars
    /\ WF_vars(ListTimerFires)
    /\ WF_vars(TreeTimerFires)
    /\ WF_vars(SetTimerFires)

(* ------------- a second run prepared over the first one ---------------- *)

\* the first run: bubble or selection sort
FirstRun ==
    /\ algo = "none"
    /\ \E sortType \in {"bubbleSort", "selectionSort"} : prepareSort(sortType)

\* step, play and pause requests, made during the first run only
FirstRunRequest ==
    /\ algo \in {"bubbleSort", "selectionSort"}
    /\ StepClick \/ PlayPauseClick

\* the second run: insertion sort; no request follows it
SecondRun ==
    /\ algo \in {"bubbleSort", "selectionSort"}
    /\ prepareSort("insertionSort")

NextSecondRun ==
    \/ FirstRun /\ UNCHANGED notArray
    \/ FirstRunRequest /\ UNCHANGED notArray
    \/ SecondRun /\ UNCHANGED notArray
    \/ TimerFires /\ UNCHANGED notArray

SpecSecondRun == InitPrepare /\ [][NextSecondRun]_vars

(* ------------------------------- claims -------------------------------- *)

\* a queue has been prepared by prepareSort
Prepared == algo \in SortTypes

\* the suspended stepForward calls: a step application is in flight
InHold(t) == t.kind \in {"step", "play"} /\ t.pc = "hold"
Holds == {i \in 1..Len(tasks) : InHold(tasks[i])}

\* the suspended playback functions (step requests and play loops)
Playbacks == {i \in 1..Len(tasks) : tasks[i].kind \in {"step", "play"}}

\* the first k steps of q applied in order
RECURSIVE ApplyPrefix(_, _, _)
ApplyPrefix(arr, q, k) ==
    IF k = 0 THEN arr ELSE ApplyStep(ApplyPrefix(arr, q, k - 1), q[k])

\* C1: under any interleaving of prepareSort, step, play and pause requests
\* with the timed holds, the live array is the array as it was when the
\* queue was prepared with exactly the first currentStep steps of the queue
\* applied, in order.
C1_LiveIsPlayedPrefix ==
    /\ currentStep <= Len(animationQueue)
    /\ array = ApplyPrefix(base, animationQueue, currentStep)

\* C2: for each algorithm and every input, the generator's working copy
\* after N steps and the live array after stepForward has applied the same
\* N steps are equal, for every N from 0 to the queue length.
C2_WorkingCopyMatchesLive ==
    Prepared =>
        /\ currentStep <= Len(animationQueue)
        /\ array = GenerateSteps(algo, base).snaps[currentStep + 1]

\* every step of insertion sort's queue has been replayed on an input that
\* needed shifts and inserts
C2_Witness ==
    /\ algo = "insertionSort"
    /\ Len(animationQueue) > 0
    /\ currentStep = Len(animationQueue)
    /\ array # base
    /\ \E k \in 1..Len(animationQueue) : animationQueue[k].type = "shift"

\* s is in ascending order
Ascending(s) == \A k \in 1..(Len(s) - 1) : s[k] <= s[k + 1]

\* how often v occurs in s
Count(s, v) == Cardinality({k \in 1..Len(s) : s[k] = v})

\* s is the ascending sorted permutation of t
SortedPermutation(s, t) ==
    /\ Len(s) = Len(t)
    /\ Ascending(s)
    /\ \A k \in 1..Len(t) : Count(s, t[k]) = Count(t, t[k])

\* C3: replay equivalence: once all steps prepared from S by one of the
\* three algorithms have been applied in order by stepForward, the live
\* array is the ascending sorted permutation of S.
C3_ReplaySorts ==
    (Prepared /\ currentStep = Len(animationQueue) /\ tasks = <<>>) =>
        SortedPermutation(array, base)

\* a selection sort run that had to swap has been replayed to its end
C3_Witness ==
    /\ algo = "selectionSort"
    /\ currentStep = Len(animationQueue)
    /\ tasks = <<>>
    /\ Len(base) >= 3
    /\ array # base

\* a prepared queue exists and no step of it has been started
NotStarted ==
    /\ Len(animationQueue) > 0
    /\ currentStep = 0
    /\ Playbacks = {}

\* create, insert or delete changes the live array
StructuralMutation ==
    /\ array' # array
    /\ \/ CreateClick
       \/ InsertClick
       \/ \E i \in 1..Len(tasks) : CanFire(i) /\ DeleteResume(i)

\* C4: a create, insert or delete that changes the live array while a
\* prepared queue has not been started clears that queue.
C4_MutationClearsQueue ==
    [][(NotStarted /\ StructuralMutation) => animationQueue' = <<>>]_vars

\* a click on the play-pause button when no play loop is running: there is
\* nothing to pause, the click asks to play
PlayRequest ==
    /\ \A i \in 1..Len(tasks) : tasks[i].kind # "play"
    /\ PlayPauseClick

\* a request the gate has to reject
GatedRequest ==
    \/ CreateClick
    \/ InsertClick
    \/ DeleteClick
    \/ SortClick
    \/ PrefixSumClick
    \/ RangeSumClick
    \/ StepClick
    \/ PlayRequest

\* C5: while isPlaying is true every gated request (create, insert, delete,
\* prepareSort, generatePrefixSum, getRangeSum, step, a second play) leaves
\* currentStep, animationQueue, the live array and the playback state
\* unchanged.
C5_GateRejects ==
    [][(isPlaying /\ GatedRequest) =>
          UNCHANGED <<currentStep, animationQueue, array, isPlaying>>]_vars

\* playback has ended: nothing is suspended and the queue is used up
PlaybackOver ==
    /\ Prepared
    /\ tasks = <<>>
    /\ ~isPlaying
    /\ currentStep >= Len(animationQueue)

\* C6: whatever the timing of the pause and resume clicks, playback ends
\* with the live array that uninterrupted playback gives (all steps applied
\* once, in order) and with currentStep = queue length.
C6_PauseResumeSameEnd ==
    PlaybackOver =>
        /\ currentStep = Len(animationQueue)
        /\ array = ApplyPrefix(base, animationQueue, Len(animationQueue))

\* C7: the step a step request applies is the step at the cursor, applied
\* exactly once with the cursor advanced by one, also when further step or
\* play requests arrive during its hold: when the request's mutation
\* happens, the cursor still stands on the step it applies.
C7_StepAppliesCursorStep ==
    [][\A i \in 1..Len(tasks) :
          (CanFire(i) /\ StepResume(i)) =>
              /\ currentStep < Len(animationQueue)
              /\ tasks[i].step = animationQueue[currentStep + 1]]_vars

\* C8: in every reachable state 0 <= currentStep <= animationQueue.length.
C8_CursorInRange == 0 <= currentStep /\ currentStep <= Len(animationQueue)

\* C9: at most one step application is in progress at any time, so no two
\* play loops or step requests alternate in applying steps.
C9_OneApplicationAtATime == Cardinality(Holds) <= 1

\* a play loop wakes from its sleep(400) and begins another step
LoopBeginsStep(i) ==
    /\ CanFire(i)
    /\ PlayGapResume(i)
    /\ \/ currentStep' # currentStep
       \/ \E j \in 1..Len(tasks') : InHold(tasks'[j]) /\ tasks'[j] \notin
              {tasks[k] : k \in 1..Len(tasks)}

\* C10: after pause(), for as long as playback has not been resumed (the
\* button still reads "Play"), the paused play loop begins no further step.
C10_PausedLoopStops ==
    [][\A i \in 1..Len(tasks) :
          playPauseBtnText = "Play" => ~LoopBeginsStep(i)]_vars

\* an insert or a delete is between its first render and its last
EditInHold == \E i \in 1..Len(tasks) : tasks[i].kind \in {"insert", "delete"}

\* C11: insert and delete hold the gate for their whole duration: the busy
\* flag is set from their first render to their last, so that no other
\* operation can start during their hold.
C11_EditHoldsGate == EditInHold => isPlaying

\* generatePrefixSum is between its first sleep and its end
PrefixInFlight == \E i \in 1..Len(tasks) : tasks[i].kind = "prefix"

\* generatePrefixSum, the holder of the gate, runs on after a sleep
HolderRuns == \E i \in 1..Len(tasks) : CanFire(i) /\ PrefixResume(i)

\* C12: while generatePrefixSum holds the gate nothing else writes the live
\* array, animationQueue or prefixSumArray, and only generatePrefixSum itself
\* releases the gate (a play-pause click made meanwhile does not).
C12_OnlyHolderWritesOrReleases ==
    [][PrefixInFlight =>
          /\ array' = array
          /\ animationQueue' = animationQueue
          /\ (prefixSumArray' # prefixSumArray \/ isPlaying' # isPlaying)
                => HolderRuns]_vars

\* C13: for a live array of length 0 or 1 a prepareSort call leaves an empty
\* animationQueue, whatever the queue held before, so that no later play or
\* step request applies a step.
C13_ShortArrayEmptiesQueue == algo = "tooShort" => animationQueue = <<>>

\* a click on the sort button that prepareSort rejects
RejectedSort == (isPlaying \/ Len(array) <= 1) /\ SortRequest

\* a click on the sort button that prepareSort accepts
AcceptedSort == ~isPlaying /\ Len(array) > 1 /\ SortRequest

\* C14: prepareSort is rejected when the gate is held or the array has at
\* most one element, and a rejected call leaves animationQueue, currentStep,
\* the live array and prefixSumArray unchanged.
C14_RejectedSortChangesNothing ==
    [][RejectedSort =>
          UNCHANGED <<animationQueue, currentStep, array, prefixSumArray>>]_vars

\* prepareSort has been rejected for a one-element array while a queue with
\* steps played and steps left and a prefix sum array were in place
C14_Witness ==
    /\ algo = "tooShort"
    /\ Len(array) = 1
    /\ currentStep > 0
    /\ currentStep < Len(animationQueue)
    /\ ~prefixSumArray.isNull

\* C15: an accepted prepareSort replaces the queue wholesale: afterwards
\* animationQueue is exactly what the selected algorithm generates from the
\* live array (nothing for an unknown selector) and currentStep is 0.
C15_AcceptedSortReplacesQueue ==
    [][AcceptedSort =>
          /\ animationQueue' = GenerateSteps(algo', array).q
          /\ algo' \notin SortTypes => animationQueue' = <<>>
          /\ currentStep' = 0]_vars

\* a run was prepared (here with an unknown selector) while a step of the
\* run before it was still in its hold: the earlier queue is gone
C15_Witness ==
    /\ algo = "otherSort"
    /\ animationQueue = <<>>
    /\ currentStep = 0
    /\ \E i \in 1..Len(tasks) : InHold(tasks[i])

\* C16: step generation does not mutate the live data: an accepted
\* prepareSort leaves the live array unchanged, element by element.
C16_GenerationKeepsLiveArray == [][AcceptedSort => array' = array]_vars

\* a run has just been prepared whose generator reordered its working copy
C16_Witness ==
    /\ Prepared
    /\ currentStep = 0
    /\ tasks = <<>>
    /\ array = base
    /\ Len(animationQueue) > 0
    /\ GenerateSteps(algo, base).arr # array

\* b is a with the positions in `written` set as w prescribes, every other
\* position and the length as they were (i and the keys of w are 0-based)
OnlyWritten(a, b, written, w(_)) ==
    /\ Len(b) = Len(a)
    /\ \A i \in 0..(Len(a) - 1) :
          At(b, i) = IF i \in written THEN w(i) ELSE At(a, i)

\* what a step of each kind prescribes for the array a, giving b
Prescribed(a, b, step) ==
    LET p == step.indices[1]
        q == step.indices[2]
        swapped(i) == IF i = p THEN At(a, q) ELSE At(a, p)
        shifted(i) == At(a, p)
        inserted(i) == step.value
    IN  CASE step.type = "compare" -> b = a
          [] step.type = "swap" -> OnlyWritten(a, b, {p, q}, swapped)
          [] step.type = "shift" -> OnlyWritten(a, b, {q}, shifted)
          [] step.type = "insert" -> OnlyWritten(a, b, {step.index}, inserted)
          [] OTHER -> FALSE

\* C17: applying one step changes the live array exactly as its kind
\* prescribes: compare changes nothing, swap exchanges the two values, shift
\* copies indices[0] into indices[1], insert writes its value at its index;
\* all other positions and the array length are unchanged.
C17_StepEffectAsPrescribed ==
    [][\A i \in 1..Len(tasks) :
          (CanFire(i) /\ (StepResume(i) \/ PlayHoldResume(i))) =>
              Prescribed(array, array', tasks[i].step)]_vars

\* the steps listed for bubble sort on [5,3,4,1]
ExampleQueue ==
    << CompareStep(0, 1), SwapStep(0, 1), CompareStep(1, 2), SwapStep(1, 2),
       CompareStep(2, 3), SwapStep(2, 3), CompareStep(0, 1),
       CompareStep(1, 2), SwapStep(1, 2), CompareStep(0, 1), SwapStep(0, 1) >>

\* C18: for the input [5,3,4,1] and bubble sort the generated queue is
\* exactly Compare(0,1), Swap(0,1), Compare(1,2), Swap(1,2), Compare(2,3),
\* Swap(2,3), Compare(0,1), Compare(1,2), Swap(1,2), Compare(0,1), Swap(0,1)
\* (11 steps), and replaying it ends with the live array [1,3,4,5].
C18_BubbleExample ==
    (algo = "bubbleSort" /\ base = <<5, 3, 4, 1>>) =>
        /\ animationQueue = ExampleQueue
        /\ Len(animationQueue) = 11
        /\ (currentStep = Len(animationQueue) /\ tasks = <<>>) =>
              array = <<1, 3, 4, 5>>

\* the queue prepared by bubble sort from [5,3,4,1] has been replayed
C18_Witness ==
    /\ algo = "bubbleSort"
    /\ base = <<5, 3, 4, 1>>
    /\ currentStep = 11
    /\ tasks = <<>>

\* the number of steps of one kind in q
CountType(q, type) == Cardinality({k \in 1..Len(q) : q[k].type = type})

\* n(n-1)/2
Pairs(n) == (n * (n - 1)) \div 2

\* s is in strictly descending order
StrictlyDescending(s) == \A k \in 1..(Len(s) - 1) : s[k] > s[k + 1]

\* C19: for insertion sort on a sequence of length n >= 2 the number of
\* compare steps generated is at least n-1 and at most n(n-1)/2; it is n-1
\* on a sorted input and n(n-1)/2 on a strictly reverse-sorted input.
C19_InsertionCompareBounds ==
    (algo = "insertionSort" /\ Len(base) >= 2) =>
        LET n == Len(base)
            c == CountType(animationQueue, "compare")
        IN  /\ n - 1 <= c
            /\ c <= Pairs(n)
            /\ Ascending(base) => c = n - 1
            /\ StrictlyDescending(base) => c = Pairs(n)

\* insertion sort has been prepared from a strictly reverse-sorted input of
\* four elements
C19_Witness ==
    /\ algo = "insertionSort"
    /\ Len(base) = 4
    /\ StrictlyDescending(base)
    /\ Len(animationQueue) > 0

\* the number of pairs of s that are out of order
Inversions(s) ==
    Cardinality({p \in (1..Len(s)) \X (1..Len(s)) :
                    p[1] < p[2] /\ s[p[1]] > s[p[2]]})

\* C20: one compare step per comparison and one swap, shift or insert step
\* per data movement: bubble and selection sort emit exactly n(n-1)/2
\* compare steps on every input of length n, bubble sort one swap per
\* inversion (and nothing else), selection sort at most one swap per pass,
\* insertion sort exactly n-1 insert steps and one shift per element moved
\* right (one per inversion); an input of length 0 or 1 gives no step.
C20_OneStepPerOperation ==
    /\ Len(array) <= 1 =>
          \A t \in SortTypes : GenerateSteps(t, array).q = <<>>
    /\ Prepared =>
          LET n == Len(base)
              q == animationQueue
          IN  /\ algo \in {"bubbleSort", "selectionSort"} =>
                    /\ CountType(q, "compare") = Pairs(n)
                    /\ CountType(q, "shift") = 0
                    /\ CountType(q, "insert") = 0
              /\ algo = "bubbleSort" =>
                    CountType(q, "swap") = Inversions(base)
              /\ algo = "selectionSort" =>
                    CountType(q, "swap") <= n - 1
              /\ algo = "insertionSort" =>
                    /\ CountType(q, "insert") = n - 1
                    /\ CountType(q, "shift") = Inversions(base)
                    /\ CountType(q, "swap") = 0

\* bubble sort has been prepared from four elements with every pair out of
\* order
C20_Witness ==
    /\ algo = "bubbleSort"
    /\ Len(base) = 4
    /\ Inversions(base) = 6
    /\ CountType(animationQueue, "swap") = 6

\* the generator run the queue in place came from
Run == GenerateSteps(algo, base)

\* bubble sort: a swap of (j, j+1) follows a compare of (j, j+1) exactly
\* when the working copy has arr[j] > arr[j+1] at that point
BubbleTieBreak(run) ==
    \A k \in 1..Len(run.q) :
        LET step == run.q[k]
            arr == run.snaps[k]
            j == step.indices[1]
        IN  /\ step.type = "compare" =>
                  /\ step.indices[2] = j + 1
                  /\ (At(arr, j) > At(arr, j + 1)) <=>
                        (k < Len(run.q) /\ run.q[k + 1] = SwapStep(j, j + 1))
            /\ step.type = "swap" =>
                  /\ k > 1
                  /\ run.q[k - 1] = CompareStep(j, j + 1)
                  /\ At(arr, j) # At(arr, j + 1)

\* selection sort: a swap of (i, m) comes after the n-1-i compares of pass
\* i, m holds a minimum of arr[i..n-1] that is strictly smaller than arr[i],
\* and the passes of successive swaps increase
SelectionTieBreak(run) ==
    \A k \in 1..Len(run.q) :
        LET step == run.q[k]
            arr == run.snaps[k]
            n == Len(arr)
            i == step.indices[1]
            m == step.indices[2]
        IN  step.type = "swap" =>
              /\ At(arr, m) < At(arr, i)
              /\ \A t \in i..(n - 1) : At(arr, m) <= At(arr, t)
              /\ k > n - 1 - i
              /\ \A d \in 1..(n - 1 - i) :
                    /\ run.q[k - d].type = "compare"
                    /\ run.q[k - d].indices[1] = n - d
              /\ \A k2 \in (k + 1)..Len(run.q) :
                    run.q[k2].type = "swap" => run.q[k2].indices[1] > i

\* the insert step that ends the pass step k belongs to
RECURSIVE NextInsert(_, _)
NextInsert(q, k) ==
    IF k > Len(q) THEN NoStep
    ELSE IF q[k].type = "insert" THEN q[k] ELSE NextInsert(q, k + 1)

\* insertion sort: a shift of (j, j+1) is emitted only when arr[j] is
\* strictly greater than the key of its pass, and every pass ends with one
\* insert of that key
InsertionTieBreak(run) ==
    /\ \A k \in 1..Len(run.q) :
          LET step == run.q[k]
              arr == run.snaps[k]
              key == NextInsert(run.q, k).value
          IN  /\ step.type = "shift" =>
                    /\ step.indices[2] = step.indices[1] + 1
                    /\ At(arr, step.indices[1]) > key
              /\ step.type = "compare" =>
                    /\ NextInsert(run.q, k).type = "insert"
                    /\ key = At(base, step.indices[1])
    /\ CountType(run.q, "insert") = Len(base) - 1

\* C21: step generation follows the textbook tie-breaks: bubble sort swaps
\* (j, j+1) exactly when arr[j] > arr[j+1] strictly; selection sort swaps at
\* most once per pass, after the full inner scan and only for a strictly
\* smaller element; insertion sort shifts only while arr[j] > key strictly
\* and then inserts once.  No swap or shift is emitted between equal values
\* by bubble or insertion sort.
C21_TextbookTieBreaks ==
    Prepared =>
        /\ animationQueue = Run.q
        /\ algo = "bubbleSort" => BubbleTieBreak(Run)
        /\ algo = "selectionSort" => SelectionTieBreak(Run)
        /\ algo = "insertionSort" => InsertionTieBreak(Run)

\* bubble sort has been prepared from an input with two equal neighbours
\* and an inversion
C21_Witness ==
    /\ algo = "bubbleSort"
    /\ \E k \in 1..(Len(base) - 1) : base[k] = base[k + 1]
    /\ CountType(animationQueue, "swap") > 0
    /\ currentStep = 0

\* playback is complete: every step of the queue applied once, in order
Complete ==
    /\ ~isPlaying
    /\ tasks = <<>>
    /\ currentStep = Len(animationQueue)
    /\ array = ApplyPrefix(base, animationQueue, Len(animationQueue))

C23_EmptyQueueNoOp ==
    [][(animationQueue = <<>> /\ ~isPlaying /\ (StepClick \/ PlayPauseClick))
          => UNCHANGED <<array, currentStep, isPlaying>>]_vars

\* the queue is empty, nothing is playing or suspended, and the button
\* still reads "Pause": a step request will write the button text
C23_Witness ==
    /\ animationQueue = <<>>
    /\ ~isPlaying
    /\ tasks = <<>>
    /\ Len(array) >= 2
    /\ playPauseBtnText = "Pause"

\* create is asked for a size that is not one of 1..15 (NaN is what
\* parseInt makes of an empty or non-numeric size field)
CreateOutOfRange ==
    /\ ~isPlaying
    /\ \E size \in {NaN, 0, MaxArraySize + 1} : create(size, <<>>)

\* insert is asked for an index outside 0..length, or the array is full
InsertOutOfRange ==
    /\ ~isPlaying
    /\ \E value \in Values : \E index \in -1..MaxLen :
          /\ index < 0 \/ index > Len(array) \/ Len(array) >= MaxArraySize
          /\ insert(value, index)

\* delete is asked for an index outside 0..length-1
DeleteOutOfRange ==
    /\ ~isPlaying
    /\ \E index \in -1..MaxLen :
          /\ index < 0 \/ index >= Len(array)
          /\ delete(index)

\* getRangeSum without a prefix sum array or with an invalid range
RangeSumRejected ==
    /\ ~isPlaying
    /\ \E start \in {NaN} \cup (-1..(MaxLen - 1)) :
          \E end \in {NaN} \cup (0..MaxLen) :
              /\ \/ prefixSumArray.isNull
                 \/ start = NaN \/ end = NaN
                 \/ start < 0 \/ end >= Len(array) \/ start > end
              /\ getRangeSum(start, end)

\* C24: the user-facing rejections leave state unchanged: create with a
\* size outside 1..15, insert with an index outside 0..length or into a
\* full array, delete with an index outside 0..length-1 and getRangeSum
\* without a prefix array or with an invalid range leave the live array,
\* animationQueue, currentStep and prefixSumArray as they were.
C24_RejectionsChangeNothing ==
    [][(CreateOutOfRange \/ InsertOutOfRange \/ DeleteOutOfRange
          \/ RangeSumRejected)
          => UNCHANGED <<array, animationQueue, currentStep,
                         prefixSumArray>>]_vars

\* a click on one of the buttons of the queue page or of the stack page
StructureClick ==
    \/ EnqueueClick
    \/ DequeueClick
    \/ QueuePeekClick
    \/ QueueInfoClick
    \/ QueueClearClick
    \/ PushClick
    \/ PopClick
    \/ StackPeekClick
    \/ StackInfoClick
    \/ StackClearClick

\* C25: in the queue visualizer and in the stack visualizer at most one of
\* enqueue/dequeue/peek/clear (push/pop/peek/clear) is in progress at any
\* time, and a request arriving while isAnimating is true is rejected: it
\* leaves the contents and isAnimating unchanged.
C25_OneOperationAtATime ==
    /\ [](Len(tasks) <= 1 /\ (isAnimating <=> tasks # <<>>))
    /\ [][(isAnimating /\ StructureClick) =>
             UNCHANGED <<queue, stack, isAnimating, tasks>>]_vars

\* a dequeue is in its hold on a queue of three elements
C25_Witness ==
    /\ page = "queue"
    /\ isAnimating
    /\ Len(queue) = 3
    /\ \E i \in 1..Len(tasks) : tasks[i].kind = "dequeue"

\* clear() has started and not ended
Clearing == \E i \in 1..Len(tasks) : tasks[i].kind = "clear"

\* clear() runs on after one of its sleeps
ClearRuns ==
    \E i \in 1..Len(tasks) :
        CanFire(i) /\ (QueueClearResume(i) \/ StackClearResume(i))

\* C26: clear() on a non-empty queue or stack runs to completion once
\* started: it ends with the structure empty and isAnimating false, and
\* between its start and its end nothing else changes the structure.
C26_ClearRunsToCompletion ==
    /\ Clearing ~> (queue = <<>> /\ stack = <<>> /\ ~isAnimating
                      /\ tasks = <<>>)
    /\ [][(Clearing /\ (queue' # queue \/ stack' # stack)) => ClearRuns]_vars

\* the sweep of a stack of several elements has two elements left to remove
C26_Witness ==
    /\ page = "stack"
    /\ Clearing
    /\ isAnimating
    /\ Len(stack) = 2

\* C27: within one swap, shift or insert step the mutation and the
\* increment of currentStep happen in one uninterrupted segment: no event
\* sees the array mutated with the cursor not yet advanced.  (Here only
\* step applications change the array.)
C27_MutationAdvancesCursor ==
    [][array' # array => currentStep' = currentStep + 1]_vars

\* a swap has been applied as the second step of a run and nothing is
\* suspended
C27_Witness ==
    /\ Prepared
    /\ currentStep = 2
    /\ animationQueue[2].type = "swap"
    /\ array = ApplyStep(base, animationQueue[2])
    /\ array # base
    /\ tasks = <<>>

\* C28: after an accepted prepareSort, until the next step or play request
\* is issued, currentStep stays 0 and the live array stays as it was: no
\* step of the previous queue is applied once the new queue is installed.
\* (Nothing is requested after the second run.)
C28_NewRunUntouched ==
    algo = "insertionSort" => (currentStep = 0 /\ array = base)

\* array[0] + ... + array[i]
RECURSIVE SumThrough(_, _)
SumThrough(arr, i) ==
    IF i < 0 THEN 0 ELSE Plus(SumThrough(arr, i - 1), At(arr, i))

\* no operation is in progress
AtRest == ~isPlaying /\ tasks = <<>>

\* C29: prefix sums are never stale: whenever prefixSumArray is non-null
\* and no operation is in progress, prefixSumArray[i] is
\* array[0] + ... + array[i] for every index i of the live array.
C29_PrefixSumsNeverStale ==
    (~prefixSumArray.isNull /\ AtRest) =>
        /\ Len(prefixSumArray.cells) = Len(array)
        /\ \A i \in 0..(Len(array) - 1) :
              prefixSumArray.cells[i + 1] = SumThrough(array, i)

\* removeLast called on a list of exactly one node comes to its end
RemoveLastOfOneEnds ==
    /\ Len(head) = 1
    /\ \E i \in 1..Len(tasks) :
          tasks[i].kind = "removeLastOne" /\ tasks' = Without(i)

\* C30: removeLast on a list with exactly one node removes that node and
\* leaves the list empty with isAnimating false.
C30_RemoveLastOfOne ==
    [][RemoveLastOfOneEnds => (head' = <<>> /\ ~isAnimating')]_vars

\* an enqueue or push request made on a full structure
FullRequest ==
    \/ Len(queue) >= QueueMaxSize /\ EnqueueClick
    \/ Len(stack) >= StackMaxSize /\ PushClick

\* C38: the queue holds at most 7 elements and the stack at most 8 in every
\* reachable state; an enqueue or push on a full structure leaves the
\* contents and isAnimating unchanged.
C38_SizeBounds ==
    /\ [](Len(queue) <= QueueMaxSize /\ Len(stack) <= StackMaxSize)
    /\ [][FullRequest => UNCHANGED <<queue, stack, isAnimating, tasks>>]_vars

\* the queue is full and at rest: the next enqueue is the rejected one
C38_Witness ==
    /\ page = "queue"
    /\ Len(queue) = QueueMaxSize
    /\ ~isAnimating
    /\ tasks = <<>>

\* the nodes met from node n along next, at most k of them
RECURSIVE AlongNext(_, _)
AlongNext(n, k) ==
    IF n = Null \/ k = 0 THEN {}
    ELSE {n} \cup AlongNext(dll.nodes[n].next, k - 1)

\* the nodes in the list
InList == AlongNext(dll.head, MaxNodes + 1)

\* C31: the doubly linked list is well formed whenever isAnimating is
\* false: head is null iff tail is null, head.previous and tail.next are
\* null, tail is reachable from head by next links, and for nodes a, b of
\* the list a.next = b iff b.previous = a.
C31_DllWellFormed ==
    ~isAnimating =>
        /\ (dll.head = Null) <=> (dll.tail = Null)
        /\ dll.head # Null => dll.nodes[dll.head].previous = Null
        /\ dll.tail # Null => dll.nodes[dll.tail].next = Null
        /\ dll.head # Null => dll.tail \in InList
        /\ \A a \in InList : \A b \in InList :
              (dll.nodes[a].next = b) <=> (dll.nodes[b].previous = a)
        /\ \A a \in InList :
              /\ dll.nodes[a].live
              /\ dll.nodes[a].next # Null => dll.nodes[a].next \in InList
              /\ dll.nodes[a].previous # Null
                    => dll.nodes[a].previous \in InList

\* a list of three nodes at rest whose head is not the node made first:
\* nodes have been added at both ends and removed
C31_Witness ==
    /\ page = "doublyLinkedList"
    /\ ~isAnimating
    /\ Cardinality(InList) = 3
    /\ dll.head = 2
    /\ dll.tail = 1

\* the nodes of the subtree under node n (k bounds the depth)
RECURSIVE Subtree(_, _)
Subtree(n, k) ==
    IF n = Null \/ k = 0 THEN {}
    ELSE {n} \cup Subtree(tree.nodes[n].left, k - 1)
             \cup Subtree(tree.nodes[n].right, k - 1)

InTree == Subtree(tree.root, MaxTreeNodes + 1)

\* C32: in every reachable state, mid-insert included, the values in the
\* left subtree of every node are strictly smaller than the node's and the
\* values in its right subtree strictly larger; no value occurs twice.
C32_SearchTreeOrder ==
    /\ \A n \in InTree :
          /\ \A m \in Subtree(tree.nodes[n].left, MaxTreeNodes) :
                tree.nodes[m].value < tree.nodes[n].value
          /\ \A m \in Subtree(tree.nodes[n].right, MaxTreeNodes) :
                tree.nodes[m].value > tree.nodes[n].value
    /\ \A n \in InTree : \A m \in InTree :
          tree.nodes[n].value = tree.nodes[m].value => n = m
    /\ InTree = DOMAIN tree.nodes \ TreeFreeIds

\* an insert walks down a tree whose root has a left and a right child
C32_Witness ==
    /\ tree.root # Null
    /\ tree.nodes[tree.root].left # Null
    /\ tree.nodes[tree.root].right # Null
    /\ \E i \in 1..Len(tasks) :
          tasks[i].kind = "treeInsertWalk" /\ tasks[i].index # tree.root

\* insert comes back from a sleep of its walk on a node that holds its value
DuplicateMet ==
    \E i \in 1..Len(tasks) :
        /\ tasks[i].kind = "treeInsertWalk"
        /\ tree.nodes[tasks[i].index].value = tasks[i].sum
        /\ tasks' = Without(i)

\* C33: inserting a value already in the binary tree changes no node and no
\* link, and isAnimating is false when insert returns.
C33_DuplicateRejected ==
    [][DuplicateMet => (tree' = tree /\ ~isAnimating' /\ tasks' = <<>>)]_vars

\* insert has walked down to a node below the root that holds its value
C33_Witness ==
    \E i \in 1..Len(tasks) :
        /\ tasks[i].kind = "treeInsertWalk"
        /\ tasks[i].index # tree.root
        /\ tree.nodes[tasks[i].index].value = tasks[i].sum
        /\ isAnimating

\* the places of the hash set's table that hold value
SetPlaces(value) ==
    {<<b, k>> \in (0..(HashSize - 1)) \X (1..Cardinality(Texts) + 1) :
        k <= Len(setTable[b]) /\ setTable[b][k] = value}

\* add(value) is in progress
Adding(value) ==
    \E i \in 1..Len(tasks) : tasks[i].kind = "setAdd" /\ tasks[i].sum = value

\* C34: every value stored in the hash set is in exactly one node, and
\* that node is in the chain of bucket hash(value); an add of a value
\* already present leaves the table as it is.
C34_HashSetPlaces ==
    /\ [](\A b \in 0..(HashSize - 1) : \A k \in 1..Len(setTable[b]) :
             SetPlaces(setTable[b][k]) = {<<hash(setTable[b][k]), k>>})
    /\ [][\A value \in Texts :
             (Adding(value) /\ SetPlaces(value) # {})
                => setTable' = setTable]_vars

\* add("a") has found "a" behind "ab" in the chain of their bucket
C34_Witness ==
    /\ setTable[hash(<<97>>)] = <<<<97, 98>>, <<97>>>>
    /\ setTable[hash(<<98>>)] = <<<<98>>>>
    /\ \E i \in 1..Len(tasks) :
          /\ tasks[i].kind = "setAdd"
          /\ tasks[i].pc = "found"
          /\ tasks[i].sum = <<97>>

\* the places of the hash map's table that hold key
MapPlaces(key) ==
    {<<b, k>> \in (0..(HashSize - 1)) \X (1..Cardinality(Texts) + 1) :
        k <= Len(mapTable[b]) /\ mapTable[b][k].key = key}

\* set(key, value) is in progress
Setting(key, value) ==
    \E i \in 1..Len(tasks) :
        /\ tasks[i].kind = "mapSet"
        /\ tasks[i].sum = [key |-> key, value |-> value]

\* the table changes as set(key, value) prescribes: the one node of an
\* existing key takes the value; a new key gets one node at the tail of
\* the chain of its bucket
SetEffect(key, value) ==
    IF MapPlaces(key) # {}
    THEN /\ \A b \in 0..(HashSize - 1) :
               ChainKeys(mapTable'[b]) = ChainKeys(mapTable[b])
         /\ \A b \in 0..(HashSize - 1) : \A k \in 1..Len(mapTable[b]) :
               mapTable'[b][k].value =
                   IF mapTable[b][k].key = key THEN value
                   ELSE mapTable[b][k].value
    ELSE mapTable' =
            [mapTable EXCEPT ![hash(key)] =
                Append(@, [key |-> key, value |-> value])]

\* C35: in the hash map each key is in at most one node, in the chain of
\* bucket hash(key); set on an existing key only replaces that node's
\* value, and set on a new key appends one node at the tail of the chain
\* of its bucket.
C35_HashMapPlaces ==
    /\ [](\A b \in 0..(HashSize - 1) : \A k \in 1..Len(mapTable[b]) :
             MapPlaces(mapTable[b][k].key) = {<<hash(mapTable[b][k].key), k>>})
    /\ [][\A key \in Texts : \A value \in MapValues :
             (Setting(key, value) /\ mapTable' # mapTable)
                => SetEffect(key, value)]_vars

\* set("ab", "y") has put its node behind the node of "a", whose value a
\* second set has replaced
C35_Witness ==
    /\ mapTable[hash(<<97>>)] =
          << [key |-> <<97>>, value |-> <<121>>],
             [key |-> <<97, 98>>, value |-> <<121>>] >>
    /\ \E i \in 1..Len(tasks) :
          /\ tasks[i].kind = "mapSet"
          /\ tasks[i].pc = "found"
          /\ tasks[i].sum = [key |-> <<97>>, value |-> <<121>>]

\* the elements of the array list and the slots behind them
ListShape ==
    /\ arrayList.size >= 0
    /\ arrayList.size <= arrayList.capacity
    /\ arrayList.capacity <= ListMaxCapacity
    /\ Len(arrayList.elements) = arrayList.capacity
    /\ \A k \in 1..Len(arrayList.elements) :
          IF k <= arrayList.size
          THEN /\ ~arrayList.elements[k].isNull
               /\ arrayList.elements[k].text # <<>>
          ELSE arrayList.elements[k] = NullSlot

\* C36: whenever isAnimating is false the array list has
\* 0 <= size <= capacity <= 16 and exactly capacity slots, of which the
\* first size are not null and the others are null, whatever sequence of
\* add, addAtIndex, remove, set, clear, sort and reverse came before.
C36_ListShapeAtRest == ~isAnimating => ListShape

\* the list is at rest with 16 elements in 16 slots: the capacity has
\* grown from 4 to 8 to 16 and the last free slot has been filled
C36_Witness ==
    /\ ~isAnimating
    /\ tasks = <<>>
    /\ arrayList.size = ListMaxCapacity
    /\ arrayList.capacity = ListMaxCapacity

\* an add or addAtIndex that went through resize is under way
Growing ==
    /\ tasks # <<>>
    /\ \/ tasks[1].kind = "resize"
       \/ tasks[1].kind \in {"listShift", "listShow"} /\ tasks[1].sum.grown

\* C37: an add or addAtIndex that triggers a resize is one gated operation:
\* isAnimating is true at every moment a request could arrive, from the
\* start of the resize to the end of the add no other request is accepted
\* and nothing but the operation changes the list, and the value ends at
\* its index with the elements from before in their order around it.
C37_ResizingAddIsOne ==
    /\ [](page = "arrayList" /\ tasks # <<>> => isAnimating)
    /\ [][Growing =>
             /\ Len(tasks') <= 1
             /\ tasks' # <<>> =>
                   /\ tasks'[1].sum.before = tasks[1].sum.before
                   /\ tasks'[1].sum.caller = tasks[1].sum.caller
                   /\ tasks'[1].sum.index = tasks[1].sum.index
                   /\ tasks'[1].sum.value = tasks[1].sum.value
             /\ tasks[1].kind = "listShow" => arrayList' = arrayList]_vars
    /\ [](Growing /\ tasks[1].kind = "listShow" =>
             /\ arrayList.size = Len(tasks[1].sum.before) + 1
             /\ SubSeq(arrayList.elements, 1, arrayList.size) =
                   SpliceIn(tasks[1].sum.before, tasks[1].sum.index,
                            Slot(tasks[1].sum.value)))

\* addAtIndex(1, "10") on the full list "2", "2", "10", "2" went through
\* resize and has placed its value
C37_Witness ==
    /\ Growing
    /\ tasks[1].kind = "listShow"
    /\ tasks[1].sum.caller = "addAtIndex"
    /\ tasks[1].sum.index = 1
    /\ tasks[1].sum.value = <<49, 48>>
    /\ tasks[1].sum.before =
          <<Slot(<<50>>), Slot(<<50>>), Slot(<<49, 48>>), Slot(<<50>>)>>
    /\ arrayList.capacity = 2 * InitialCapacity

\* C39: on the linked-list, binary-tree and hash-set pages no operation
\* leaves the visualizer busy for ever: whenever isAnimating is true it
\* becomes false again, on every path the operation can take, so that a
\* later request is accepted.
C39_BusyEnds == isAnimating ~> ~isAnimating

\* removeLast on a list of one node is busy and waits for removeFirst,
\* which has returned at once
C39_Witness ==
    /\ page = "linkedList"
    /\ isAnimating
    /\ Len(head) = 1
    /\ \E i \in 1..Len(tasks) : tasks[i].kind = "removeLastOne"

====
